---- MODULE Spec2Model ----
(***************************************************************************)
(* HTTrojan: bitstream lexer, loader, golden baseline and frame-level      *)
(* differential detector for the Virtex-5 VLX50T.                          *)
(*                                                                         *)
(* Seven specifications share this module:                                  *)
(*   Spec          the differential detector (baseline build + detect)     *)
(*   SpecSeverity  the severity rule table applied to one anomaly          *)
(*   SpecLoad      the packet lexer and the bitstream loader               *)
(*   SpecFar       FrameAddress, FrameMapper and ReverseMapper on one FAR  *)
(*   SpecEnhanced  detect_enhanced: detect, then the semantic passes       *)
(*   SpecBaseline  baseline build, GoldenBaseline.save and .load           *)
(*   SpecWalk      FrameLexer.generate_frames, one loop iteration a step   *)
(*                                                                         *)
(* Representation notes                                                    *)
(*   - a 32-bit word is the pair <<hi, lo>> of its 16-bit halves (TLC's    *)
(*     integers are 32-bit signed, FAR values reach 2^32 - 1);             *)
(*   - in the detector, a frame payload (164 bytes) is the set of offsets  *)
(*     in 0..1311 of its 1-bits, numbered MSB-first as extract_bit does;   *)
(*   - in the lexer, the byte stream is a sequence of 4-byte words and a   *)
(*     frame payload is the sequence of its bytes;                         *)
(*   - a tile name "TT_XxYy" is the triple <<TT, x, y>>;                   *)
(*   - confidences are percentages (0.95 is 95).                           *)
(***************************************************************************)
EXTENDS Integers, Sequences, FiniteSets, TLC

VARIABLES
    \* ---- detector (Spec)
    bitA,        \* frames of loaded bitstream A, in lexer order
    bitB,        \* frames of loaded bitstream B, in lexer order
    usedOpt,     \* how the baseline's used-tile set is supplied
    run,         \* 1: detect(baseline(A), B); 2: detect(baseline(B), A)
    first,       \* outcome of run 1, kept while run 2 executes
    golden,      \* GoldenBaseline of the current run
    suspect,     \* LoadedBitstream indices of the current run
    dpc,         \* position inside detect
    report,      \* AnomalyReport of the current run
    \* ---- severity table (SpecSeverity)
    anomaly,     \* the anomaly handed to _assess_severity
    spc,         \* "input" | "assessed"
    \* ---- lexer and loader (SpecLoad)
    data,        \* the words of the .bit file Parser.parse reads
    payload,     \* FrameLexer.payload: the words split_on_marker hands to the lexer
    pos,         \* FrameLexer.pos, in words
    last_far,    \* FrameLexer.last_far (<<>> is None)
    toks,        \* FrameLexer.toks
    result,      \* FrameLexer.result
    capture_history, \* argument of BitstreamLoader.load (default True)
    loaded,      \* the LoadedBitstream returned by load
    lpc,         \* "parse" | "lexing" | "returned" | "raised" | "loaded" | "failed"
    \* ---- frame addresses (SpecFar)
    fa_fields,   \* the arguments of FrameAddress.encode
    fa_far,      \* the FAR value encode returned
    fa_decoded,  \* what FrameAddress.decode returned for it
    fa_coverage, \* the FrameCoverage FrameMapper.map_frame returned for it
    fa_reverse,  \* tile -> FARs ReverseMapper.get_frames_for_tile returned
    fpc,         \* "input" | "encoded" | "decoded" | "mapped" | "reversed"
    \* ---- enhanced detector (SpecEnhanced)
    eopt,        \* <<analyze_routing, analyze_logic>> of detect_enhanced
    base_anomalies, \* the anomalies of the report as detect returned it
    epc,         \* position inside detect_enhanced
    \* ---- baseline persistence (SpecBaseline)
    bfile,       \* what GoldenBaseline.save wrote (<<>>: no file)
    reloaded,    \* what GoldenBaseline.load returned
    bpc,         \* "build" | "built" | "saved" | "loaded"
    \* ---- column walker (SpecWalk)
    gf,          \* the local variables of FrameLexer.generate_frames
    wpc          \* "call" | "loop" | "returned" | "raised"

vars == <<bitA, bitB, usedOpt, run, first, golden, suspect, dpc, report,
          anomaly, spc,
          data, payload, pos, last_far, toks, result, capture_history, loaded, lpc,
          fa_fields, fa_far, fa_decoded, fa_coverage, fa_reverse, fpc,
          eopt, base_anomalies, epc,
          bfile, reloaded, bpc,
          gf, wpc>>

detVars == <<bitA, bitB, usedOpt, run, first, golden, suspect, dpc, report>>
sevVars == <<anomaly, spc>>
loadVars == <<data, payload, pos, last_far, toks, result, capture_history, loaded, lpc>>
farVars == <<fa_fields, fa_far, fa_decoded, fa_coverage, fa_reverse, fpc>>
enhVars == <<eopt, base_anomalies, epc>>
blVars == <<bfile, reloaded, bpc>>
walkVars == <<gf, wpc>>

(***************************************************************************)
(* Generic helpers                                                         *)
(***************************************************************************)
Range(s) == {s[i] : i \in 1..Len(s)}

Last(s) == s[Len(s)]

Max(a, b) == IF a >= b THEN a ELSE b

Min(a, b) == IF a <= b THEN a ELSE b

\* {0, ..., k-1}
Below(k) == {i \in 0..(k - 1) : TRUE}

\* the elements of s written to far, in order
RECURSIVE SelectFar(_, _)
SelectFar(s, far) ==
    IF s = <<>> THEN <<>>
    ELSE IF Head(s).far_value = far
         THEN <<Head(s)>> \o SelectFar(Tail(s), far)
         ELSE SelectFar(Tail(s), far)

\* all orders in which the elements of a finite set can be iterated
RECURSIVE Orders(_)
Orders(S) ==
    IF S = {} THEN {<<>>}
    ELSE UNION {{<<x>> \o o : o \in Orders(S \ {x})} : x \in S}

(***************************************************************************)
(* Device constants (analysis/frame_rules.py)                              *)
(***************************************************************************)
WORDS_PER_FRAME == 41
BITS_PER_FRAME == 1312
BYTES_PER_FRAME == 164
TOTAL_COLUMNS == 48
TILES_PER_ROW == 20
TOTAL_TILE_ROWS == 160

\* BlockType enumeration
CLB == 0
IOB == 1
BRAM_CONTENT == 2
BRAM_INT == 3
DSP == 4
CLK == 5

BramColumns == {4, 8, 12, 16, 20, 28, 32, 36, 40, 44}

\* ColumnClassification.get_column_type over COLUMN_MAP
get_column_type(major) ==
    IF major \notin 0..(TOTAL_COLUMNS - 1) THEN "UNKNOWN"
    ELSE IF major \in {0, 47} THEN "IOB"
    ELSE IF major \in {23, 24} THEN "CLK"
    ELSE IF major \in BramColumns THEN "BRAM"
    ELSE "CLB"

\* ColumnClassification.get_tile_types_in_column over COLUMN_MAP
get_tile_types_in_column(major) ==
    CASE get_column_type(major) = "UNKNOWN" -> <<>>
      [] major = 0 -> <<"LIOI", "INT">>
      [] major = 47 -> <<"RIOI", "INT">>
      [] get_column_type(major) = "CLK" -> <<"HCLK", "INT">>
      [] get_column_type(major) = "BRAM" -> <<"BRAM", "BRAM_INT">>
      [] OTHER -> IF major % 4 = 2 THEN <<"CLBLM", "INT">> ELSE <<"CLBLL", "INT">>

\* ColumnClassification.get_frames_per_column
get_frames_per_column(major) ==
    CASE get_column_type(major) = "IOB" -> 54
      [] get_column_type(major) = "CLK" -> 4
      [] get_column_type(major) = "BRAM" -> 92
      [] get_column_type(major) = "CLB" -> 36
      [] OTHER -> 0

\* ColumnClassification.get_routing_frames_count
get_routing_frames_count(major) ==
    CASE get_column_type(major) = "IOB" -> 54
      [] get_column_type(major) = "CLK" -> 4
      [] get_column_type(major) = "BRAM" -> 28
      [] get_column_type(major) = "CLB" -> 22
      [] OTHER -> 0

\* ColumnDescriptor.block_type_default as _build_column_descriptors sets it
block_type_default(major) ==
    CASE get_column_type(major) = "IOB" -> IOB
      [] get_column_type(major) = "CLK" -> CLK
      [] get_column_type(major) = "BRAM" -> BRAM_CONTENT
      [] OTHER -> CLB

\* ColumnDescriptor.get_block_type_for_minor
get_block_type_for_minor(major, minor) ==
    IF get_column_type(major) = "BRAM"
    THEN (IF minor < 28 THEN BRAM_INT ELSE BRAM_CONTENT)
    ELSE block_type_default(major)

\* ColumnDescriptor.is_routing_frame
is_routing_frame(major, minor) == minor < get_routing_frames_count(major)

\* BlockType.contains_routing over PROPERTIES
contains_routing(block_type) == block_type \in {CLB, IOB, BRAM_INT, CLK}

\* BlockType.contains_logic over PROPERTIES
contains_logic(block_type) == block_type \in {CLB, BRAM_CONTENT}

(***************************************************************************)
(* Frame addresses                                                         *)
(***************************************************************************)
\* FrameLexer.pack_far: block<<29 | major<<23 | minor<<17 with
\* major = top_bottom<<5 | column
pack_far(block, top_bottom, column, minor) ==
    LET major == ((top_bottom % 2) * 32) + (column % 32)
    IN  <<((block % 8) * 8192) + ((major % 64) * 128) + ((minor % 64) * 2), 0>>

\* FrameAddress.decode: block_type at bit 23, top_bottom at bit 22,
\* major at bit 17, minor in bits 16..0
decode(far) ==
    [block_type |-> (far[1] \div 128) % 8,
     top_bottom |-> (far[1] \div 64) % 2,
     major      |-> (far[1] \div 2) % 64,
     minor      |-> ((far[1] % 2) * 65536) + far[2]]

\* FrameAddress.encode: the four masked fields shifted to bits 23, 22, 17
\* and 0 and or-ed together; bit 22 receives both top_bottom and bit 5 of
\* major
encode(block_type, top_bottom, major, minor) ==
    LET bit22 == Max((top_bottom % 2), ((major % 64) \div 32))
    IN  <<((block_type % 8) * 128) + (bit22 * 64) + ((major % 32) * 2)
              + ((minor % 131072) \div 65536),
          minor % 65536>>

\* FrameAddress.validate
validate(far) ==
    LET f == decode(far)
    IN  /\ f.block_type <= 7
        /\ f.major <= TOTAL_COLUMNS - 1
        /\ get_column_type(f.major) # "UNKNOWN"
        /\ f.minor < get_frames_per_column(f.major)

(***************************************************************************)
(* Frame mapper (analysis/assembler/frame_mapper.py)                       *)
(***************************************************************************)
\* FrameMapper._classify_resources
classify_resources(block_type, major, minor) ==
    LET base == (IF contains_routing(block_type) THEN {"routing"} ELSE {})
                \cup (IF contains_logic(block_type) THEN {"logic"} ELSE {})
        byType ==
            CASE block_type = CLB ->
                    IF is_routing_frame(major, minor) THEN {"routing"} ELSE {"logic"}
              [] block_type = IOB -> {"io", "routing"}
              [] block_type = BRAM_CONTENT -> {"memory"}
              [] block_type = BRAM_INT -> {"routing"}
              [] block_type = CLK -> {"clock", "routing"}
              [] OTHER -> {}
        control == IF block_type \in {CLB, IOB, CLK} THEN {"control"} ELSE {}
        categories == base \cup byType \cup control
    IN  IF categories = {} THEN {"unknown"} ELSE categories

\* FrameMapper._calculate_tile_range and _generate_tile_names
generate_tile_names(column, minor, top_bottom) ==
    LET y_base == IF top_bottom = 1 THEN 80 ELSE 0
        y_start == y_base + (minor * TILES_PER_ROW)
        y_end == Min(y_start + TILES_PER_ROW, TOTAL_TILE_ROWS)
    IN  {<<tt, column, y>> : tt \in Range(get_tile_types_in_column(column)),
                             y \in y_start..(y_end - 1)}

\* FrameMapper._create_invalid_coverage
create_invalid_coverage(far) ==
    [far_value |-> far, block_type_id |-> -1, column |-> -1, minor |-> -1,
     top_bottom |-> -1, tiles_affected |-> {},
     is_routing_frame |-> FALSE, is_logic_frame |-> FALSE,
     is_clock_frame |-> FALSE, is_io_frame |-> FALSE,
     is_valid |-> FALSE, validation_warnings |-> {"invalid_column"}]

\* FrameMapper.map_frame
map_frame(far) ==
    LET f == decode(far)
        categories == classify_resources(f.block_type, f.major, f.minor)
        warnings ==
            (IF validate(far) THEN {} ELSE {"invalid_far"})
            \cup (IF get_block_type_for_minor(f.major, f.minor) # f.block_type
                  THEN {"block_type_unexpected"} ELSE {})
    IN  IF get_column_type(f.major) = "UNKNOWN"
        THEN create_invalid_coverage(far)
        ELSE [far_value |-> far, block_type_id |-> f.block_type,
              column |-> f.major, minor |-> f.minor, top_bottom |-> f.top_bottom,
              tiles_affected |-> generate_tile_names(f.major, f.minor, f.top_bottom),
              is_routing_frame |-> "routing" \in categories,
              is_logic_frame |-> "logic" \in categories,
              is_clock_frame |-> "clock" \in categories,
              is_io_frame |-> "io" \in categories,
              is_valid |-> warnings = {},
              validation_warnings |-> warnings]

(***************************************************************************)
(* Frame data (mapping/integration/frame_obj_adapter.py)                   *)
(***************************************************************************)
\* FrameDataExtractor.count_set_bits
count_set_bits(frame_data) == Cardinality(frame_data)

\* FrameDataExtractor.compare_frames: the offsets at which the frames differ
compare_frames(golden_data, suspect_data) ==
    (golden_data \ suspect_data) \cup (suspect_data \ golden_data)

(***************************************************************************)
(* Detector inputs: what the lexer and the adapter can hand over           *)
(***************************************************************************)
MaxWrites == 2

\* lexer addresses <<block, top_bottom, column, minor>>:
\*   DSP column 5 decodes as block type CLK (clock + routing),
\*   CLB column 2 decodes as BRAM_CONTENT (logic only),
\*   CLB column 4 decodes as DSP (no category)
DetAddrs == {<<3, 0, 5, 1>>, <<0, 0, 2, 1>>, <<0, 0, 4, 2>>}

\* payloads as numbers of leading 1-bits
DetPayloads == {0, 4, 9, 60}

\* AdaptedFrame as FrameObjAdapter.adapt builds it
AdaptedFrame(a, k, idx) ==
    [far_value |-> pack_far(a[1], a[2], a[3], a[4]),
     block_type |-> a[1], top_bottom |-> a[2], column |-> a[3],
     major |-> (a[2] * 32) + (a[3] % 32), minor |-> a[4],
     frame_data |-> Below(k), frame_index |-> idx,
     data_word_count |-> WORDS_PER_FRAME]

DetLogs ==
    UNION {{[i \in 1..n |-> AdaptedFrame(w[i][1], w[i][2], i - 1)] :
                w \in [1..n -> DetAddrs \X DetPayloads]} : n \in 1..MaxWrites}

FarsOf(frames) == {frames[i].far_value : i \in 1..Len(frames)}

(***************************************************************************)
(* LoadedBitstream (mapping/integration/bitstream_loader.py)               *)
(***************************************************************************)
\* LoadedBitstream._build_indices: the last write to a FAR wins, every
\* write is appended to the FAR's history
build_indices(frames) ==
    [frames |-> frames,
     frame_by_far |-> [far \in FarsOf(frames) |-> Last(SelectFar(frames, far))],
     write_history |-> [far \in FarsOf(frames) |-> SelectFar(frames, far)]]

(***************************************************************************)
(* GoldenBaseline (detector/baseline)                                      *)
(***************************************************************************)
\* GoldenBaseline.__init__
EmptyBaseline ==
    [frames |-> <<>>, configured_fars |-> {}, write_history |-> <<>>,
     used_tiles |-> {}, size |-> 0]

add_frames_keep_first(frames) ==
    [far \in FarsOf(frames) |-> Head(SelectFar(frames, far))]

\* GoldenBaseline.add_frames: add_frame for each frame, later writes
\* replace earlier ones
add_frames(frames) ==
    [far \in FarsOf(frames) |-> Last(SelectFar(frames, far))]

\* GoldenBaseline.set_bulk_write_history over the loader's histories
set_bulk_write_history(bs) ==
    [far \in DOMAIN bs.write_history |->
        [i \in 1..Len(bs.write_history[far]) |-> bs.write_history[far][i].frame_data]]

\* GoldenBaselineBuilder.extract_used_tiles_from_frames (threshold 0.01):
\* set_bit_count / 1312 > 0.01, i.e. 100 * set_bit_count > 1312
extract_used_tiles_from_frames(frames) ==
    UNION {map_frame(frames[i].far_value).tiles_affected :
             i \in {j \in 1..Len(frames) :
                      100 * count_set_bits(frames[j].frame_data) > BITS_PER_FRAME}}

\* GoldenBaselineBuilder.build_from_loaded
build_from_loaded(bs) ==
    [frames |-> add_frames(bs.frames),
     configured_fars |-> FarsOf(bs.frames),
     write_history |-> set_bulk_write_history(bs),
     used_tiles |-> {},
     size |-> Cardinality(FarsOf(bs.frames))]

\* GoldenBaselineBuilder.build_from_bitstream with auto_detect_usage
build_from_bitstream(bs) ==
    [build_from_loaded(bs) EXCEPT
        !.used_tiles = extract_used_tiles_from_frames(bs.frames)]

\* GoldenBaseline.is_tile_used
is_tile_used(g, tile) == tile \in g.used_tiles

(***************************************************************************)
(* Anomalies and the report (detector/differential/frame_anomaly.py)       *)
(***************************************************************************)
AnomalyTypes ==
    {"FRAME_ADDED", "FRAME_REMOVED", "FRAME_MODIFIED", "UNUSED_REGION_MOD",
     "ROUTING_CHANGE", "LOGIC_CHANGE", "CLOCK_CHANGE", "IO_CHANGE"}

SeverityLevels == {"CRITICAL", "HIGH", "MEDIUM", "LOW", "INFO"}

\* FrameAnomaly.is_in_unused_region
is_in_unused_region(a) == Cardinality(a.tiles_unused) > Cardinality(a.tiles_used)

\* AnomalyReport.__init__
EmptyReport ==
    [anomalies |-> <<>>,
     total_frames_compared |-> 0, frames_with_differences |-> 0,
     total_bits_changed |-> 0,
     critical_count |-> 0, high_count |-> 0, medium_count |-> 0, low_count |-> 0,
     type_counts |-> [t \in AnomalyTypes |-> 0],
     trojan_detected |-> FALSE, verdict |-> ""]

\* AnomalyReport.add_anomaly: the counters take the anomaly's severity and
\* type as they are when it is added
add_anomaly(r, a) ==
    [r EXCEPT
        !.anomalies = Append(@, a),
        !.critical_count = IF a.severity = "CRITICAL" THEN @ + 1 ELSE @,
        !.high_count = IF a.severity = "HIGH" THEN @ + 1 ELSE @,
        !.medium_count = IF a.severity = "MEDIUM" THEN @ + 1 ELSE @,
        !.low_count = IF a.severity = "LOW" THEN @ + 1 ELSE @,
        !.type_counts[a.anomaly_type] = @ + 1,
        !.total_bits_changed = @ + a.bits_changed,
        !.frames_with_differences = IF a.bits_changed > 0 THEN @ + 1 ELSE @]

RECURSIVE add_anomalies(_, _)
add_anomalies(r, as) ==
    IF as = <<>> THEN r ELSE add_anomalies(add_anomaly(r, Head(as)), Tail(as))

\* AnomalyReport._generate_summary: the verdict line
generate_summary(r) ==
    IF r.trojan_detected THEN "TROJAN DETECTED"
    ELSE IF r.high_count > 0 \/ r.medium_count > 0
         THEN "SUSPICIOUS MODIFICATIONS FOUND"
    ELSE IF Len(r.anomalies) > 0 \/ r.total_bits_changed > 0
         THEN "MODIFICATIONS DETECTED"
    ELSE "NO SIGNIFICANT ANOMALIES"

\* AnomalyReport.finalize
finalize(r) ==
    LET v == [r EXCEPT !.trojan_detected = (r.critical_count > 0 \/ r.high_count >= 3)]
    IN  [v EXCEPT !.verdict = generate_summary(v)]

(***************************************************************************)
(* FrameDifferentialDetector                                               *)
(***************************************************************************)
min_bits_for_significance == 5

\* FrameDifferentialDetector._create_added_frame_anomaly
create_added_frame_anomaly(far, bs) ==
    LET suspect_frame == bs.frame_by_far[far]
        coverage == map_frame(far)
    IN  [anomaly_id |-> <<"added", far>>,
         anomaly_type |-> "FRAME_ADDED", severity |-> "MEDIUM",
         far_value |-> far, block_type |-> suspect_frame.block_type,
         column |-> suspect_frame.column, minor |-> suspect_frame.minor,
         top_bottom |-> suspect_frame.top_bottom,
         tiles_affected |-> coverage.tiles_affected,
         tiles_used |-> {}, tiles_unused |-> {},
         bits_changed |-> count_set_bits(suspect_frame.frame_data),
         is_routing_frame |-> coverage.is_routing_frame,
         is_logic_frame |-> coverage.is_logic_frame,
         is_clock_frame |-> coverage.is_clock_frame,
         is_io_frame |-> coverage.is_io_frame,
         confidence_score |-> 0, attack_vectors |-> <<>>, transient |-> FALSE,
         golden_data |-> <<>>, suspect_data |-> <<suspect_frame.frame_data>>]

\* the "Determine primary anomaly type" chain of _create_modified_frame_anomaly
primary_anomaly_type(coverage) ==
    IF coverage.is_routing_frame THEN "ROUTING_CHANGE"
    ELSE IF coverage.is_logic_frame THEN "LOGIC_CHANGE"
    ELSE IF coverage.is_clock_frame THEN "CLOCK_CHANGE"
    ELSE IF coverage.is_io_frame THEN "IO_CHANGE"
    ELSE "FRAME_MODIFIED"

create_modified_frame_anomaly_no_floor(golden_frame, suspect_frame, is_transient, reference) ==
    LET far == golden_frame.far_value
        diff_bits == compare_frames(reference, suspect_frame.frame_data)
        coverage == map_frame(far)
    IN  IF Cardinality(diff_bits) < 1 THEN <<>>
        ELSE <<[anomaly_id |-> <<"modified", far>>,
                anomaly_type |-> primary_anomaly_type(coverage),
                severity |-> "MEDIUM",
                far_value |-> far, block_type |-> golden_frame.block_type,
                column |-> golden_frame.column, minor |-> golden_frame.minor,
                top_bottom |-> golden_frame.top_bottom,
                tiles_affected |-> coverage.tiles_affected,
                tiles_used |-> {}, tiles_unused |-> {},
                bits_changed |-> Cardinality(diff_bits),
                is_routing_frame |-> coverage.is_routing_frame,
                is_logic_frame |-> coverage.is_logic_frame,
                is_clock_frame |-> coverage.is_clock_frame,
                is_io_frame |-> coverage.is_io_frame,
                confidence_score |-> 0,
                attack_vectors |-> IF is_transient THEN <<"transient_payload">> ELSE <<>>,
                transient |-> is_transient,
                golden_data |-> <<reference>>,
                suspect_data |-> <<suspect_frame.frame_data>>]>>

\* FrameDifferentialDetector._create_modified_frame_anomaly; the result is
\* <<>> for None and <<anomaly>> otherwise
create_modified_frame_anomaly(golden_frame, suspect_frame, is_transient, reference) ==
    LET far == golden_frame.far_value
        diff_bits == compare_frames(reference, suspect_frame.frame_data)
        coverage == map_frame(far)
    IN  IF Cardinality(diff_bits) < min_bits_for_significance THEN <<>>
        ELSE <<[anomaly_id |-> <<"modified", far>>,
                anomaly_type |-> primary_anomaly_type(coverage),
                severity |-> "MEDIUM",
                far_value |-> far, block_type |-> golden_frame.block_type,
                column |-> golden_frame.column, minor |-> golden_frame.minor,
                top_bottom |-> golden_frame.top_bottom,
                tiles_affected |-> coverage.tiles_affected,
                tiles_used |-> {}, tiles_unused |-> {},
                bits_changed |-> Cardinality(diff_bits),
                is_routing_frame |-> coverage.is_routing_frame,
                is_logic_frame |-> coverage.is_logic_frame,
                is_clock_frame |-> coverage.is_clock_frame,
                is_io_frame |-> coverage.is_io_frame,
                confidence_score |-> 0,
                attack_vectors |-> IF is_transient THEN <<"transient_payload">> ELSE <<>>,
                transient |-> is_transient,
                golden_data |-> <<reference>>,
                suspect_data |-> <<suspect_frame.frame_data>>]>>

\* FrameDifferentialDetector._detect_transient_history_mismatches, from the
\* 0-based write index idx on
RECURSIVE detect_transient_history_mismatches(_, _, _, _)
detect_transient_history_mismatches(idx, golden_frame, suspect_history, golden_history) ==
    IF idx >= Len(suspect_history) THEN <<>>
    ELSE LET zipped == Min(Len(suspect_history), Len(golden_history))
             suspect_frame == suspect_history[idx + 1]
             here ==
                 IF idx < zipped
                 THEN (IF suspect_frame.frame_data # golden_history[idx + 1]
                       THEN create_modified_frame_anomaly(golden_frame, suspect_frame,
                                                          TRUE, golden_history[idx + 1])
                       ELSE <<>>)
                 ELSE create_modified_frame_anomaly(golden_frame, suspect_frame,
                                                    TRUE, golden_frame.frame_data)
         IN  here \o detect_transient_history_mismatches(idx + 1, golden_frame,
                                                         suspect_history, golden_history)

\* FrameDifferentialDetector._detect_data_differences; fars is the order in
\* which the set of common FARs is iterated
RECURSIVE detect_data_differences(_, _, _)
detect_data_differences(g, bs, fars) ==
    IF fars = <<>> THEN <<>>
    ELSE LET far == Head(fars)
             golden_frame == g.frames[far]
             suspect_frame == bs.frame_by_far[far]
             golden_history == g.write_history[far]
             suspect_history == bs.write_history[far]
             here ==
                 IF golden_frame.frame_data # suspect_frame.frame_data
                 THEN create_modified_frame_anomaly(golden_frame, suspect_frame,
                                                    FALSE, golden_frame.frame_data)
                 ELSE IF golden_history # <<>> /\ suspect_history # <<>>
                      THEN detect_transient_history_mismatches(0, golden_frame,
                                                               suspect_history, golden_history)
                      ELSE <<>>
         IN  here \o detect_data_differences(g, bs, Tail(fars))

\* the added-frame loop of _detect_structural_differences; fars is the order
\* in which the set of added FARs is iterated
added_frame_anomalies(bs, fars) ==
    [i \in 1..Len(fars) |-> create_added_frame_anomaly(fars[i], bs)]

\* the loop body of FrameDifferentialDetector._classify_anomalies
classify_anomaly(a, g) ==
    LET tiles_used == {t \in a.tiles_affected : is_tile_used(g, t)}
        tiles_unused == {t \in a.tiles_affected : ~is_tile_used(g, t)}
    IN  [a EXCEPT
            !.tiles_used = tiles_used,
            !.tiles_unused = tiles_unused,
            !.anomaly_type =
                IF Cardinality(tiles_unused) > Cardinality(tiles_used)
                   /\ a.anomaly_type = "FRAME_MODIFIED"
                THEN "UNUSED_REGION_MOD" ELSE @]

\* FrameDifferentialDetector._classify_anomalies
classify_anomalies(anomalies, g) ==
    [i \in 1..Len(anomalies) |-> classify_anomaly(anomalies[i], g)]

\* the if/elif chain of _calculate_severity, before the transient override
base_severity(a) ==
    IF a.is_clock_frame
    THEN [severity |-> "CRITICAL", confidence |-> 95,
          attack_vectors |-> <<"clock_manipulation", "timing_attack">>]
    ELSE IF a.is_io_frame /\ is_in_unused_region(a)
    THEN [severity |-> "CRITICAL", confidence |-> 90,
          attack_vectors |-> <<"data_exfiltration", "covert_channel">>]
    ELSE IF a.is_routing_frame /\ is_in_unused_region(a)
    THEN (IF 5 <= a.bits_changed /\ a.bits_changed <= 50
          THEN [severity |-> "CRITICAL", confidence |-> 90,
                attack_vectors |-> <<"routing_detour", "hidden_routing_trojan",
                                     "minimal_footprint_trojan">>]
          ELSE [severity |-> "HIGH", confidence |-> 85,
                attack_vectors |-> <<"routing_detour", "hidden_routing_trojan">>])
    ELSE IF a.is_routing_frame /\ Cardinality(a.tiles_used) > 0
    THEN [severity |-> "HIGH", confidence |-> 70,
          attack_vectors |-> <<"routing_detour", "path_manipulation">>]
    ELSE IF a.is_logic_frame /\ is_in_unused_region(a)
    THEN [severity |-> "MEDIUM", confidence |-> 75,
          attack_vectors |-> <<"hidden_logic", "trojan_payload">>]
    ELSE IF a.anomaly_type = "FRAME_ADDED"
    THEN (IF is_in_unused_region(a)
          THEN [severity |-> "MEDIUM", confidence |-> 70,
                attack_vectors |-> <<"unauthorized_configuration">>]
          ELSE [severity |-> "LOW", confidence |-> 50, attack_vectors |-> <<>>])
    ELSE IF a.anomaly_type = "FRAME_REMOVED"
    THEN [severity |-> "LOW", confidence |-> 40, attack_vectors |-> <<>>]
    ELSE [severity |-> "LOW", confidence |-> 50, attack_vectors |-> <<>>]

calculate_severity_logic_first(a) ==
    LET b == IF a.is_logic_frame /\ is_in_unused_region(a) /\ ~a.is_clock_frame
             THEN [severity |-> "MEDIUM", confidence |-> 75,
                   attack_vectors |-> <<"hidden_logic", "trojan_payload">>]
             ELSE base_severity(a)
    IN  IF a.transient
        THEN [severity |-> IF b.severity \in {"LOW", "MEDIUM"} THEN "HIGH" ELSE b.severity,
              confidence |-> IF b.severity \in {"LOW", "MEDIUM"}
                             THEN Max(b.confidence, 80) ELSE b.confidence,
              attack_vectors |-> IF "transient_payload" \in Range(b.attack_vectors)
                                 THEN b.attack_vectors
                                 ELSE Append(b.attack_vectors, "transient_payload")]
        ELSE b

\* FrameDifferentialDetector._calculate_severity
calculate_severity(a) ==
    LET b == base_severity(a)
    IN  IF a.transient
        THEN [severity |-> IF b.severity \in {"LOW", "MEDIUM"} THEN "HIGH" ELSE b.severity,
              confidence |-> IF b.severity \in {"LOW", "MEDIUM"}
                             THEN Max(b.confidence, 80) ELSE b.confidence,
              attack_vectors |-> IF "transient_payload" \in Range(b.attack_vectors)
                                 THEN b.attack_vectors
                                 ELSE Append(b.attack_vectors, "transient_payload")]
        ELSE b

assess_anomaly_table_only(a) ==
    LET s == base_severity(a)
    IN  [a EXCEPT !.severity = s.severity,
                  !.confidence_score = s.confidence,
                  !.attack_vectors = s.attack_vectors]

\* the loop body of FrameDifferentialDetector._assess_severity
assess_anomaly(a) ==
    LET s == calculate_severity(a)
    IN  [a EXCEPT !.severity = s.severity,
                  !.confidence_score = s.confidence,
                  !.attack_vectors = s.attack_vectors]

\* FrameDifferentialDetector._assess_severity
assess_severity(anomalies) ==
    [i \in 1..Len(anomalies) |-> assess_anomaly(anomalies[i])]

(***************************************************************************)
(* Values of the variables a specification does not use                    *)
(***************************************************************************)
NoBitstream == [frames |-> <<>>, frame_by_far |-> <<>>, write_history |-> <<>>]

NoOutcome == [outcome |-> "none", report |-> EmptyReport]

NoAnomaly == [anomaly_type |-> "FRAME_MODIFIED", severity |-> "MEDIUM"]

DetIdle ==
    /\ bitA = <<>> /\ bitB = <<>> /\ usedOpt = "none" /\ run = 0
    /\ first = NoOutcome /\ golden = EmptyBaseline /\ suspect = NoBitstream
    /\ dpc = "idle" /\ report = EmptyReport

SevIdle == anomaly = NoAnomaly /\ spc = "idle"

LoadIdle ==
    /\ data = <<>> /\ payload = <<>> /\ pos = 0 /\ last_far = <<>> /\ toks = <<>>
    /\ result = <<>> /\ capture_history = TRUE /\ loaded = NoBitstream
    /\ lpc = "idle"

FarIdle ==
    /\ fa_fields = <<>> /\ fa_far = <<>> /\ fa_decoded = <<>>
    /\ fa_coverage = <<>> /\ fa_reverse = <<>> /\ fpc = "idle"

EnhIdle == eopt = <<FALSE, FALSE>> /\ base_anomalies = <<>> /\ epc = "idle"

BlIdle == bfile = <<>> /\ reloaded = EmptyBaseline /\ bpc = "idle"

WalkIdle == gf = <<>> /\ wpc = "idle"

(***************************************************************************)
(* Spec: build a baseline from one bitstream, detect against the other,    *)
(* then the same with the roles exchanged                                  *)
(***************************************************************************)
GoldenLog == IF run = 1 THEN bitA ELSE bitB

SuspectLog == IF run = 1 THEN bitB ELSE bitA

Init ==
    /\ bitA \in DetLogs
    /\ bitB \in DetLogs
    /\ usedOpt \in {"build_from_loaded", "build_from_bitstream"}
    /\ run = 1
    /\ first = NoOutcome
    /\ golden = EmptyBaseline
    /\ suspect = NoBitstream
    /\ dpc = "build"
    /\ report = EmptyReport
    /\ SevIdle
    /\ LoadIdle
    /\ FarIdle
    /\ EnhIdle
    /\ BlIdle
    /\ WalkIdle

\* GoldenBaselineBuilder.build_from_loaded / build_from_bitstream on the
\* golden bitstream, BitstreamLoader.load on the suspect one
Build ==
    /\ dpc = "build"
    /\ golden' = IF usedOpt = "build_from_bitstream"
                 THEN build_from_bitstream(build_indices(GoldenLog))
                 ELSE build_from_loaded(build_indices(GoldenLog))
    /\ suspect' = build_indices(SuspectLog)
    /\ report' = EmptyReport
    /\ dpc' = "structural"
    /\ UNCHANGED <<bitA, bitB, usedOpt, run, first, sevVars, enhVars, blVars, walkVars, farVars, loadVars>>

\* detect, step 1: no FAR of the baseline is missing from the suspect
DetectStructural ==
    /\ dpc = "structural"
    /\ golden.configured_fars \ FarsOf(suspect.frames) = {}
    /\ \E order \in Orders(FarsOf(suspect.frames) \ golden.configured_fars) :
          report' = add_anomalies(EmptyReport, added_frame_anomalies(suspect, order))
    /\ dpc' = "data"
    /\ UNCHANGED <<bitA, bitB, usedOpt, run, first, golden, suspect, sevVars, enhVars, blVars, walkVars, farVars, loadVars>>

\* detect, step 1: _create_removed_frame_anomaly reads the undefined name
\* `reference` (line 333) for the first FAR of golden_fars - suspect_fars;
\* the NameError leaves detect before any anomaly is added to the report
DetectStructuralNameError ==
    /\ dpc = "structural"
    /\ golden.configured_fars \ FarsOf(suspect.frames) # {}
    /\ report' = EmptyReport
    /\ dpc' = "raised"
    /\ UNCHANGED <<bitA, bitB, usedOpt, run, first, golden, suspect, sevVars, enhVars, blVars, walkVars, farVars, loadVars>>

\* detect, step 2
DetectData ==
    /\ dpc = "data"
    /\ \E order \in Orders(golden.configured_fars \cap FarsOf(suspect.frames)) :
          report' = add_anomalies(report, detect_data_differences(golden, suspect, order))
    /\ dpc' = "classify"
    /\ UNCHANGED <<bitA, bitB, usedOpt, run, first, golden, suspect, sevVars, enhVars, blVars, walkVars, farVars, loadVars>>

\* detect, step 3
Classify ==
    /\ dpc = "classify"
    /\ report' = [report EXCEPT !.anomalies = classify_anomalies(@, golden)]
    /\ dpc' = "assess"
    /\ UNCHANGED <<bitA, bitB, usedOpt, run, first, golden, suspect, sevVars, enhVars, blVars, walkVars, farVars, loadVars>>

\* detect, step 4
AssessSeverity ==
    /\ dpc = "assess"
    /\ report' = [report EXCEPT !.anomalies = assess_severity(@)]
    /\ dpc' = "finalize"
    /\ UNCHANGED <<bitA, bitB, usedOpt, run, first, golden, suspect, sevVars, enhVars, blVars, walkVars, farVars, loadVars>>

\* detect: total_frames_compared, report.finalize(), return
Finalize ==
    /\ dpc = "finalize"
    /\ report' = finalize([report EXCEPT
                              !.total_frames_compared = golden.size + Len(suspect.frames)])
    /\ dpc' = "returned"
    /\ UNCHANGED <<bitA, bitB, usedOpt, run, first, golden, suspect, sevVars, enhVars, blVars, walkVars, farVars, loadVars>>

\* the caller keeps the outcome of detect(baseline(A), B) and runs
\* detect(baseline(B), A)
SwapRoles ==
    /\ dpc \in {"returned", "raised"}
    /\ run = 1
    /\ first' = [outcome |-> dpc, report |-> report]
    /\ run' = 2
    /\ golden' = EmptyBaseline
    /\ suspect' = NoBitstream
    /\ report' = EmptyReport
    /\ dpc' = "build"
    /\ UNCHANGED <<bitA, bitB, usedOpt, sevVars, enhVars, blVars, walkVars, farVars, loadVars>>

Next ==
    \/ Build
    \/ DetectStructural
    \/ DetectStructuralNameError
    \/ DetectData
    \/ Classify
    \/ AssessSeverity
    \/ Finalize
    \/ SwapRoles

Spec == Init /\ [][Next]_vars

(***************************************************************************)
(* Properties of the detector                                              *)
(***************************************************************************)
Returned == dpc = "returned"

Anoms == {report.anomalies[k] : k \in 1..Len(report.anomalies)}

NumWithSeverity(s) ==
    Cardinality({k \in 1..Len(report.anomalies) : report.anomalies[k].severity = s})

NumWithType(t) ==
    Cardinality({k \in 1..Len(report.anomalies) : report.anomalies[k].anomaly_type = t})

NumForFar(far) ==
    Cardinality({k \in 1..Len(report.anomalies) : report.anomalies[k].far_value = far})

CommonFars == golden.configured_fars \cap FarsOf(suspect.frames)

FinalDiff(far) ==
    Cardinality(compare_frames(golden.frames[far].frame_data,
                               suspect.frame_by_far[far].frame_data))

HistoriesDiffer(far) ==
    \E i \in 1..Min(Len(golden.write_history[far]), Len(suspect.write_history[far])) :
        golden.write_history[far][i] # suspect.write_history[far][i].frame_data

FarsOfType(r, t) ==
    {r.anomalies[k].far_value :
        k \in {j \in 1..Len(r.anomalies) : r.anomalies[j].anomaly_type = t}}

\* C1: when the suspect is the very bitstream the baseline was built from,
\* detect returns, and its report has no anomaly, trojan_detected = FALSE
\* and total_bits_changed = 0.
C1_IdentityHasNoAnomalies ==
    GoldenLog = SuspectLog =>
        /\ dpc # "raised"
        /\ Returned => /\ Len(report.anomalies) = 0
                       /\ report.trojan_detected = FALSE
                       /\ report.total_bits_changed = 0

\* a returned self-comparison of a bitstream that rewrites one FAR with a
\* payload far from the first one
C1_Witness ==
    /\ Returned
    /\ GoldenLog = SuspectLog
    /\ Len(bitA) = 2
    /\ bitA[1].far_value = bitA[2].far_value
    /\ Cardinality(compare_frames(bitA[1].frame_data, bitA[2].frame_data)) >= 5

\* C2: when detect returns, trojan_detected holds exactly if some anomaly of
\* the report has severity CRITICAL or at least three have severity HIGH.
C2_VerdictFollowsFinalSeverities ==
    Returned =>
        (report.trojan_detected <=>
            (NumWithSeverity("CRITICAL") >= 1 \/ NumWithSeverity("HIGH") >= 3))

\* C3: when detect returns, each severity counter and each per-type counter
\* of the report equals the number of its anomalies with that severity or type.
C3_CountsMatchAnomalies ==
    Returned =>
        /\ report.critical_count = NumWithSeverity("CRITICAL")
        /\ report.high_count = NumWithSeverity("HIGH")
        /\ report.medium_count = NumWithSeverity("MEDIUM")
        /\ report.low_count = NumWithSeverity("LOW")
        /\ \A t \in AnomalyTypes : report.type_counts[t] = NumWithType(t)

\* C4: when detect returns, every common FAR whose final payloads are equal
\* and whose write histories differ at some index has an anomaly with
\* transient = TRUE and severity HIGH or CRITICAL.
C4_TransientHistoryReported ==
    Returned =>
        \A far \in CommonFars :
            (FinalDiff(far) = 0 /\ HistoriesDiffer(far)) =>
                \E a \in Anoms : /\ a.far_value = far
                                 /\ a.transient
                                 /\ a.severity \in {"HIGH", "CRITICAL"}

\* C6: when detect returns, a common FAR whose final payloads differ has no
\* anomaly if fewer than 5 bits differ and exactly one if 5 or more differ.
C6_NoiseFloor ==
    Returned =>
        \A far \in CommonFars :
            FinalDiff(far) > 0 =>
                /\ FinalDiff(far) < 5 => NumForFar(far) = 0
                /\ FinalDiff(far) >= 5 => NumForFar(far) = 1

\* a returned report over one FAR changed in 4 bits and one changed in 5
C6_Witness ==
    /\ Returned
    /\ \E f1, f2 \in CommonFars :
          /\ FinalDiff(f1) = 4 /\ NumForFar(f1) = 0
          /\ FinalDiff(f2) = 5 /\ NumForFar(f2) = 1

\* the priority the type of a modified frame is claimed to follow
ClaimedPrimaryType(a) ==
    IF a.is_clock_frame THEN "CLOCK_CHANGE"
    ELSE IF a.is_io_frame THEN "IO_CHANGE"
    ELSE IF a.is_routing_frame THEN "ROUTING_CHANGE"
    ELSE IF a.is_logic_frame THEN "LOGIC_CHANGE"
    ELSE "FRAME_MODIFIED"

\* C7: a modified-frame anomaly, as step 2 of detect adds it, has type
\* CLOCK_CHANGE if its frame is a clock frame, else IO_CHANGE if I/O, else
\* ROUTING_CHANGE if routing, else LOGIC_CHANGE if logic, else FRAME_MODIFIED.
C7_TypeByClaimedPriority ==
    dpc = "classify" =>
        \A a \in Anoms :
            a.anomaly_type \notin {"FRAME_ADDED", "FRAME_REMOVED"} =>
                a.anomaly_type = ClaimedPrimaryType(a)

\* C8: once both detect(baseline(A), B) and detect(baseline(B), A) have
\* ended, both have returned, the FARs of the FRAME_ADDED anomalies of the
\* first are the FARs of the FRAME_REMOVED anomalies of the second, and the
\* second reports FRAME_REMOVED for every FAR of its golden that its suspect
\* lacks.
C8_StructuralSymmetry ==
    (run = 2 /\ dpc \in {"returned", "raised"}) =>
        /\ first.outcome = "returned"
        /\ Returned
        /\ FarsOfType(first.report, "FRAME_ADDED") = FarsOfType(report, "FRAME_REMOVED")
        /\ FarsOfType(report, "FRAME_REMOVED")
              = golden.configured_fars \ FarsOf(suspect.frames)

(***************************************************************************)
(* SpecSeverity: _assess_severity applied to one classified anomaly        *)
(***************************************************************************)
MaxTiles == 2

SevBits == {0, 4, 5, 50, 51}

\* a classified anomaly, as _classify_anomalies leaves it: tentative
\* severity LOW for FRAME_REMOVED and MEDIUM otherwise
SevInputs ==
    {[anomaly_type |-> t,
      severity |-> IF t = "FRAME_REMOVED" THEN "LOW" ELSE "MEDIUM",
      tiles_used |-> {<<"INT", 1, y>> : y \in 1..u},
      tiles_unused |-> {<<"INT", 2, y>> : y \in 1..n},
      bits_changed |-> b,
      is_routing_frame |-> fl[1], is_logic_frame |-> fl[2],
      is_clock_frame |-> fl[3], is_io_frame |-> fl[4],
      confidence_score |-> 0,
      attack_vectors |-> IF tr THEN <<"transient_payload">> ELSE <<>>,
      transient |-> tr] :
        t \in AnomalyTypes, u \in 0..MaxTiles, n \in 0..MaxTiles, b \in SevBits,
        fl \in BOOLEAN \X BOOLEAN \X BOOLEAN \X BOOLEAN, tr \in BOOLEAN}

InitSeverity ==
    /\ anomaly \in SevInputs
    /\ spc = "input"
    /\ DetIdle
    /\ LoadIdle
    /\ FarIdle
    /\ EnhIdle
    /\ BlIdle
    /\ WalkIdle

\* FrameDifferentialDetector._assess_severity on the anomaly
SevAssess ==
    /\ spc = "input"
    /\ anomaly' = assess_anomaly(anomaly)
    /\ spc' = "assessed"
    /\ UNCHANGED <<detVars, loadVars, farVars, enhVars, blVars, walkVars>>

NextSeverity == SevAssess

SpecSeverity == InitSeverity /\ [][NextSeverity]_vars

\* the rule table as claimed, in order: <<condition, severity, confidence>>
ClaimedRules(a) ==
    <<<<a.is_clock_frame, "CRITICAL", 95>>,
      <<a.is_io_frame /\ is_in_unused_region(a), "CRITICAL", 90>>,
      <<a.is_routing_frame /\ is_in_unused_region(a)
            /\ 5 <= a.bits_changed /\ a.bits_changed <= 50, "CRITICAL", 90>>,
      <<a.is_routing_frame /\ is_in_unused_region(a), "HIGH", 85>>,
      <<a.is_routing_frame /\ Cardinality(a.tiles_used) >= 1, "HIGH", 70>>,
      <<a.is_logic_frame /\ is_in_unused_region(a), "MEDIUM", 75>>,
      <<a.anomaly_type = "FRAME_ADDED" /\ is_in_unused_region(a), "MEDIUM", 70>>,
      <<a.anomaly_type = "FRAME_ADDED", "LOW", 50>>,
      <<a.anomaly_type = "FRAME_REMOVED", "LOW", 40>>,
      <<TRUE, "LOW", 50>>>>

FirstMatch(rules) ==
    rules[CHOOSE i \in 1..Len(rules) :
              rules[i][1] /\ \A j \in 1..(i - 1) : ~rules[j][1]]

opcode(op) ==
    IF op = 0 THEN "NOP" ELSE IF op = 1 THEN "READ"
    ELSE IF op = 2 THEN "WRITE" ELSE "SYNC"

\* MajorMinors.get(column, -1), as FrameLexer.max_minor reads it
max_minor(column) ==
    IF column \in {3, 9} THEN 30
    ELSE IF column \in {5, 11} THEN 28
    ELSE IF column \in {7, 13} THEN 54
    ELSE IF column \in 0..14 THEN 36
    ELSE -1

\* Blocks: block code -> name ("" is None)
Blocks(code) ==
    IF code = 0 THEN "CLB" ELSE IF code = 1 THEN "BRAM"
    ELSE IF code = 3 THEN "DSP" ELSE IF code = 4 THEN "IO" ELSE ""

\* Blocks_Majors
Blocks_Majors(name) ==
    IF name = "CLB" THEN <<0, 1, 2, 4, 6, 8, 10, 12, 14>>
    ELSE IF name = "BRAM" THEN <<3, 9>>
    ELSE IF name = "DSP" THEN <<5, 11>>
    ELSE <<7, 13>>

\* FrameLexer.interpret_far on a 4-byte word
interpret_far(far) ==
    LET block == far[1] \div 8192
        major == (far[1] \div 128) % 64
        top_bottom == (major \div 32) % 2
        column == major % 32
        minor == (far[1] \div 2) % 64
    IN  <<block, top_bottom, column, major, minor>>

\* generate_frames.next_block_code: the next key of Blocks within ten tries,
\* -1 for None
next_block_code(code) ==
    IF \E c \in (code + 1)..(code + 10) : Blocks(c) # ""
    THEN CHOOSE c \in (code + 1)..(code + 10) :
            Blocks(c) # "" /\ \A d \in (code + 1)..(c - 1) : Blocks(d) = ""
    ELSE -1

\* position of column in a major list, 0 when absent
IndexOf(list, column) ==
    IF \E i \in 1..Len(list) : list[i] = column
    THEN CHOOSE i \in 1..Len(list) : list[i] = column
    ELSE 0

\* the address update at the end of one iteration of generate_frames' loop;
\* addresses are <<block, top_bottom, column, minor>>
next_address(a) ==
    LET block == a[1]
        top_bottom == a[2]
        column == a[3]
        minor == a[4]
        major_list == Blocks_Majors(Blocks(block))
        maj_idx == IndexOf(major_list, column)
        next_block == next_block_code(block)
    IN  IF minor + 1 < max_minor(column)
        THEN <<block, top_bottom, column, minor + 1>>
        ELSE IF maj_idx < Len(major_list)
        THEN <<block, top_bottom, major_list[maj_idx + 1], 0>>
        ELSE IF next_block = -1
        THEN <<0, 1 - top_bottom, Blocks_Majors(Blocks(0))[1], 0>>
        ELSE <<next_block, top_bottom, Blocks_Majors(Blocks(next_block))[1], 0>>

\* f"{n:04X}" as a sequence of digit values
Hex4(n) == <<n \div 4096, (n \div 256) % 16, (n \div 16) % 16, n % 16>>

\* f"{far_int:08X}"
ToHex8(w) == Hex4(w[1]) \o Hex4(w[2])

\* int(far_hex_str, 16) on eight digits
FromHex8(d) ==
    <<(d[1] * 4096) + (d[2] * 256) + (d[3] * 16) + d[4],
      (d[5] * 4096) + (d[6] * 256) + (d[7] * 16) + d[8]>>

\* FrameObj as one iteration of generate_frames' loop builds it
FrameObj(a, chunk, idx) ==
    [far_raw |-> ToHex8(pack_far(a[1], a[2], a[3], a[4])),
     block_type |-> a[1], top_bottom |-> a[2], column |-> a[3],
     major |-> (a[2] * 32) + (a[3] % 32), minor |-> a[4],
     data_words |-> chunk, idx |-> idx]

generate_frames_drop_first(a, payload_frames, created, start_idx) ==
    LET RECURSIVE go(_, _)
        go(b, n) ==
            IF n >= Len(payload_frames) THEN <<>>
            ELSE (IF n > 0 THEN <<FrameObj(b, payload_frames[n + 1], start_idx + n)>>
                  ELSE <<>>) \o go(next_address(b), n + 1)
    IN  go(a, created)

\* the loop of FrameLexer.generate_frames from address a on: one FrameObj
\* per chunk (every iteration creates one, so max_iter never runs out)
RECURSIVE generate_frames(_, _, _, _)
generate_frames(a, payload_frames, created, start_idx) ==
    IF created >= Len(payload_frames) THEN <<>>
    ELSE <<FrameObj(a, payload_frames[created + 1], start_idx + created)>>
         \o generate_frames(next_address(a), payload_frames, created + 1, start_idx)

\* the start of generate_frames: a start column outside the block's major
\* list is replaced by the list's first column
start_address(start_fields) ==
    LET block == start_fields[1]
        major_list == Blocks_Majors(Blocks(block))
    IN  IF IndexOf(major_list, start_fields[3]) = 0
        THEN <<block, start_fields[2], major_list[1], start_fields[5]>>
        ELSE <<block, start_fields[2], start_fields[3], start_fields[5]>>

\* FrameLexer.do_lexing on the header word at 0-based position p (the
\* position after advance is p + 1); kind "" is None, used counts the words
\* taken by nextPacket
do_lexing(p) ==
    LET hdr == payload[p + 1]
        type == hdr[1] \div 8192
        op == opcode((hdr[1] \div 2048) % 4)
        reg_address == ((hdr[1] * 8) + (hdr[2] \div 8192)) % 65536
        wc1 == hdr[2] % 8192
        wc2 == ((hdr[1] % 512) * 65536) + hdr[2]
        avail == Min(wc2, Len(payload) - (p + 1))
        words == SubSeq(payload, p + 2, p + 1 + avail)
        nchunks == (avail + WORDS_PER_FRAME - 1) \div WORDS_PER_FRAME
        chunks == [k \in 1..nchunks |->
                      SubSeq(words, (WORDS_PER_FRAME * (k - 1)) + 1,
                             Min(WORDS_PER_FRAME * k, avail))]
        none == [kind |-> "", opcode |-> op, reg_address |-> 0, word_count |-> 0,
                 value |-> <<>>, payload |-> <<>>, used |-> 0]
    IN  IF type = 1
        THEN (IF op = "WRITE" /\ wc1 = 1
              THEN [kind |-> "FAR", opcode |-> op, reg_address |-> reg_address,
                    word_count |-> wc1,
                    value |-> IF p + 2 <= Len(payload) THEN payload[p + 2] ELSE <<>>,
                    payload |-> <<>>,
                    used |-> IF p + 2 <= Len(payload) THEN 1 ELSE 0]
              ELSE none)
        ELSE IF type = 2
        THEN [kind |-> "FDRI", opcode |-> op, reg_address |-> 0, word_count |-> wc2,
              value |-> <<>>, payload |-> chunks, used |-> avail]
        ELSE none

\* a packet as FrameLexer.toks holds it
Token(res) == [kind |-> res.kind, opcode |-> res.opcode,
               reg_address |-> res.reg_address, word_count |-> res.word_count,
               value |-> res.value, payload |-> res.payload]

(***************************************************************************)
(* Adapter and loader (mapping/integration)                                *)
(***************************************************************************)
Pow2(n) == IF n = 0 THEN 1 ELSE
           IF n = 1 THEN 2 ELSE
           IF n = 2 THEN 4 ELSE
           IF n = 3 THEN 8 ELSE
           IF n = 4 THEN 16 ELSE
           IF n = 5 THEN 32 ELSE
           IF n = 6 THEN 64 ELSE
           IF n = 7 THEN 128 ELSE
           IF n = 8 THEN 256 ELSE
           IF n = 9 THEN 512 ELSE
           IF n = 10 THEN 1024 ELSE
           IF n = 11 THEN 2048 ELSE
           IF n = 12 THEN 4096 ELSE
           IF n = 13 THEN 8192 ELSE
           IF n = 14 THEN 16384 ELSE 32768

\* bit k (0 is the most significant) of a big-endian 4-byte word
BitOfWord(w, k) ==
    IF k < 16 THEN (w[1] \div Pow2(15 - k)) % 2 ELSE (w[2] \div Pow2(31 - k)) % 2

\* FrameObjAdapter._extract_frame_data: the words' bytes, big-endian, in
\* order; the result is the set of offsets of the 1-bits of those bytes
extract_frame_data(data_words) ==
    {o \in 0..((32 * Len(data_words)) - 1) :
        BitOfWord(data_words[(o \div 32) + 1], o % 32) = 1}

\* FrameObjAdapter.adapt: <<>> is None (the ValueError of a payload that is
\* not 164 bytes long is caught and recorded)
adapt(frame_obj) ==
    IF 4 * Len(frame_obj.data_words) # BYTES_PER_FRAME THEN <<>>
    ELSE <<[far_value |-> FromHex8(frame_obj.far_raw),
            block_type |-> frame_obj.block_type,
            top_bottom |-> frame_obj.top_bottom,
            column |-> frame_obj.column,
            major |-> frame_obj.major, minor |-> frame_obj.minor,
            frame_data |-> extract_frame_data(frame_obj.data_words),
            frame_index |-> frame_obj.idx,
            data_word_count |-> Len(frame_obj.data_words)]>>

\* FrameObjAdapter.adapt_batch
RECURSIVE adapt_batch(_)
adapt_batch(frame_objs) ==
    IF frame_objs = <<>> THEN <<>>
    ELSE adapt(Head(frame_objs)) \o adapt_batch(Tail(frame_objs))

\* FrameObjAdapter.validate_frame_data (an adapted frame always has 164 bytes)
validate_frame_data(adapted) ==
    /\ adapted.data_word_count = WORDS_PER_FRAME
    /\ adapted.block_type <= 7
    /\ adapted.top_bottom \in {0, 1}
    /\ adapted.column <= 47

\* BitstreamLoader._validate_frames
validate_frames(frames) == SelectSeq(frames, validate_frame_data)

\* FrameObjAdapter.errors after adapt_batch: the indices of the lexer frames
\* adapt has failed on
adapter_errors(frame_objs) ==
    {frame_objs[i].idx : i \in {j \in 1..Len(frame_objs) : adapt(frame_objs[j]) = <<>>}}

\* the frames _validate_frames prints a warning for and filters out
validation_warnings(frames) ==
    {frames[i].frame_index :
        i \in {j \in 1..Len(frames) : ~validate_frame_data(frames[j])}}

\* BitstreamLoader.load after Parser.parse has returned frame_objs
load(frame_objs, capture) ==
    LET bs == build_indices(validate_frames(adapt_batch(frame_objs)))
    IN  IF capture THEN bs
        ELSE [bs EXCEPT !.write_history =
                            [far \in DOMAIN bs.write_history |->
                                <<Last(bs.write_history[far])>>]]

(***************************************************************************)
(* SpecLoad: FrameLexer.lexer packet by packet, then BitstreamLoader.load  *)
(***************************************************************************)
MaxPackets == 4

\* input words: Type-1 write header for a register, Type-2 write header,
\* Type-1 NOP
Type1Write(reg, wc) == <<12288 + (reg \div 8), ((reg % 8) * 8192) + wc>>

Type2Write(wc) == <<20480 + (wc \div 65536), wc % 65536>>

NopWord == <<8192, 0>>

\* the j-th data word of the packet at position p
DataWords(p, n) == [j \in 1..n |-> <<p, j>>]

PacketKinds ==
    {"far_clb", "far_dsp", "far_unknown", "far_minor50", "far_cut", "cmd", "nop",
     "fdri_1", "fdri_2", "fdri_unaligned", "fdri_truncated"}

\* the words of one packet of the input stream
PacketWords(kind, p) ==
    CASE kind = "far_clb" -> <<Type1Write(1, 1), pack_far(0, 0, 1, 35)>>
      [] kind = "far_dsp" -> <<Type1Write(1, 1), pack_far(3, 0, 5, 1)>>
      [] kind = "far_unknown" -> <<Type1Write(1, 1), pack_far(2, 0, 0, 0)>>
      [] kind = "far_minor50" -> <<Type1Write(1, 1), pack_far(0, 0, 1, 50)>>
      [] kind = "far_cut" -> <<Type1Write(1, 1)>>
      [] kind = "cmd" -> <<Type1Write(4, 1), <<0, 7>>>>
      [] kind = "nop" -> <<NopWord>>
      [] kind = "fdri_1" -> <<Type2Write(WORDS_PER_FRAME)>> \o DataWords(p, WORDS_PER_FRAME)
      [] kind = "fdri_2" ->
            <<Type2Write(2 * WORDS_PER_FRAME)>> \o DataWords(p, 2 * WORDS_PER_FRAME)
      [] kind = "fdri_unaligned" ->
            <<Type2Write(WORDS_PER_FRAME + 5)>> \o DataWords(p, WORDS_PER_FRAME + 5)
      [] OTHER -> <<Type2Write(2 * WORDS_PER_FRAME)>> \o DataWords(p, WORDS_PER_FRAME)

RECURSIVE Stream(_, _)
Stream(kinds, p) ==
    IF p > Len(kinds) THEN <<>>
    ELSE PacketWords(kinds[p], p) \o Stream(kinds, p + 1)

\* the sync marker AA 99 55 66 and the first word 00 09 0F F0 of a .bit header
SyncWord == <<43673, 21862>>

HeaderWord == <<9, 4080>>

\* data.find(marker): the 0-based index of the first marker word, -1 if none.
\* The files of InitLoad are whole words and hold the marker's bytes only
\* as a whole word, so the byte search is a search over the words.
find(d, marker) ==
    IF \E i \in 1..Len(d) : d[i] = marker
    THEN (CHOOSE i \in 1..Len(d) :
              d[i] = marker /\ \A j \in 1..(i - 1) : d[j] # marker) - 1
    ELSE -1

\* Parser.split_on_marker with which = "first", keep_marker = False
split_on_marker(d) ==
    LET idx == find(d, SyncWord)
    IN  IF idx = -1 THEN [head |-> <<>>, payload |-> d, idx |-> -1]
        ELSE [head |-> SubSeq(d, 1, idx),
              payload |-> SubSeq(d, idx + 2, Len(d)), idx |-> idx]

\* a file: a header word, the sync marker or not, the packet stream
InitLoad ==
    /\ \E n \in 0..MaxPackets : \E kinds \in [1..n -> PacketKinds] :
          \E sync \in {<<>>, <<SyncWord>>} :
              data = <<HeaderWord>> \o sync \o Stream(kinds, 1)
    /\ payload = <<>>
    /\ capture_history = TRUE
    /\ pos = 0
    /\ last_far = <<>>
    /\ toks = <<>>
    /\ result = <<>>
    /\ loaded = NoBitstream
    /\ lpc = "parse"
    /\ DetIdle
    /\ SevIdle
    /\ FarIdle
    /\ EnhIdle
    /\ BlIdle
    /\ WalkIdle

\* Parser.parse up to the construction of the FrameLexer: the header of
\* these files has no TLV record, so parse_header finds no token
ParsePayload ==
    /\ lpc = "parse"
    /\ payload' = split_on_marker(data).payload
    /\ lpc' = "lexing"
    /\ UNCHANGED <<data, pos, last_far, toks, result, capture_history, loaded,
                   detVars, sevVars, enhVars, blVars, walkVars, farVars>>

Lexing == lpc = "lexing" /\ pos < Len(payload)

\* a header do_lexing returns None for
LexSkip ==
    /\ Lexing
    /\ do_lexing(pos).kind = ""
    /\ pos' = pos + 1
    /\ UNCHANGED <<data, payload, last_far, toks, result, capture_history, loaded, lpc,
                   detVars, sevVars, enhVars, blVars, walkVars, farVars>>

\* a Type-1 one-word write: the word after the header becomes last_far
LexFAR ==
    /\ Lexing
    /\ do_lexing(pos).kind = "FAR"
    /\ do_lexing(pos).value # <<>>
    /\ toks' = Append(toks, Token(do_lexing(pos)))
    /\ last_far' = interpret_far(do_lexing(pos).value)
    /\ pos' = pos + 2
    /\ UNCHANGED <<data, payload, result, capture_history, loaded, lpc, detVars, sevVars, enhVars, blVars, walkVars, farVars>>

\* a Type-1 one-word write at the very end: interpret_far(None) raises
LexFARNoValue ==
    /\ Lexing
    /\ do_lexing(pos).kind = "FAR"
    /\ do_lexing(pos).value = <<>>
    /\ toks' = Append(toks, Token(do_lexing(pos)))
    /\ pos' = pos + 1
    /\ lpc' = "raised"
    /\ UNCHANGED <<data, payload, last_far, result, capture_history, loaded, detVars, sevVars, enhVars, blVars, walkVars, farVars>>

\* a Type-2 packet after a FAR: generate_frames appends its frames
LexFDRI ==
    /\ Lexing
    /\ do_lexing(pos).kind = "FDRI"
    /\ last_far # <<>>
    /\ Blocks(last_far[1]) # ""
    /\ toks' = Append(toks, Token(do_lexing(pos)))
    /\ result' = result \o generate_frames(start_address(last_far),
                                           do_lexing(pos).payload, 0, Len(result))
    /\ pos' = pos + 1 + do_lexing(pos).used
    /\ UNCHANGED <<data, payload, last_far, capture_history, loaded, lpc, detVars, sevVars, enhVars, blVars, walkVars, farVars>>

\* a Type-2 packet before any FAR: ValueError
LexFDRIBeforeFAR ==
    /\ Lexing
    /\ do_lexing(pos).kind = "FDRI"
    /\ last_far = <<>>
    /\ toks' = Append(toks, Token(do_lexing(pos)))
    /\ pos' = pos + 1 + do_lexing(pos).used
    /\ lpc' = "raised"
    /\ UNCHANGED <<data, payload, last_far, result, capture_history, loaded, detVars, sevVars, enhVars, blVars, walkVars, farVars>>

\* a Type-2 packet after a FAR whose block code is not in Blocks:
\* generate_frames raises ValueError before it appends a frame
LexFDRIUnknownBlock ==
    /\ Lexing
    /\ do_lexing(pos).kind = "FDRI"
    /\ last_far # <<>>
    /\ Blocks(last_far[1]) = ""
    /\ toks' = Append(toks, Token(do_lexing(pos)))
    /\ pos' = pos + 1 + do_lexing(pos).used
    /\ lpc' = "raised"
    /\ UNCHANGED <<data, payload, last_far, result, capture_history, loaded, detVars, sevVars, enhVars, blVars, walkVars, farVars>>

\* the end of the stream: lexer returns self.result
LexReturn ==
    /\ lpc = "lexing"
    /\ pos >= Len(payload)
    /\ lpc' = "returned"
    /\ UNCHANGED <<data, payload, pos, last_far, toks, result, capture_history, loaded,
                   detVars, sevVars, enhVars, blVars, walkVars, farVars>>

\* BitstreamLoader.load, called with either value of capture_history:
\* adapt, validate, index
LoadBuild ==
    /\ lpc = "returned"
    /\ \E capture \in BOOLEAN :
          /\ capture_history' = capture
          /\ loaded' = load(result, capture)
    /\ lpc' = "loaded"
    /\ UNCHANGED <<data, payload, pos, last_far, toks, result, detVars, sevVars, enhVars, blVars, walkVars, farVars>>

\* BitstreamLoader.load: an exception of the lexer is caught, load returns None
LoadFail ==
    /\ lpc = "raised"
    /\ loaded' = NoBitstream
    /\ lpc' = "failed"
    /\ UNCHANGED <<data, payload, pos, last_far, toks, result, capture_history,
                   detVars, sevVars, enhVars, blVars, walkVars, farVars>>

NextLoad ==
    \/ ParsePayload
    \/ LexSkip
    \/ LexFAR
    \/ LexFARNoValue
    \/ LexFDRI
    \/ LexFDRIBeforeFAR
    \/ LexFDRIUnknownBlock
    \/ LexReturn
    \/ LoadBuild
    \/ LoadFail

SpecLoad == InitLoad /\ [][NextLoad]_vars

(***************************************************************************)
(* Properties of the lexer and the loader                                  *)
(***************************************************************************)
\* the chunks of the Type-2 packets lexed so far, in packet order
RECURSIVE ChunksOf(_)
ChunksOf(ts) ==
    IF ts = <<>> THEN <<>>
    ELSE (IF Head(ts).kind = "FDRI" THEN Head(ts).payload ELSE <<>>)
         \o ChunksOf(Tail(ts))

IsFullChunk(c) == Len(c) = 41

HasFullChunk(f) == Len(f.data_words) = 41

NumFDRI == Cardinality({i \in 1..Len(toks) : toks[i].kind = "FDRI"})

\* the frame writes of the lexer to one FAR, in lexer order
RECURSIVE WritesTo(_, _)
WritesTo(objs, far) ==
    IF objs = <<>> THEN <<>>
    ELSE (IF FromHex8(Head(objs).far_raw) = far THEN <<Head(objs)>> ELSE <<>>)
         \o WritesTo(Tail(objs), far)

LexerFars == {FromHex8(result[i].far_raw) : i \in 1..Len(result)}

\* C9: while the lexer runs and when it returns, its frame writes that carry
\* 41 words are, one for one and in order, the 41-word chunks of the Type-2
\* packets lexed so far, and the index strictly increases along the result.
C9_OneFramePerChunkInOrder ==
    lpc \in {"lexing", "returned"} =>
        /\ Len(SelectSeq(result, HasFullChunk))
              = Len(SelectSeq(ChunksOf(toks), IsFullChunk))
        /\ \A i \in 1..Len(SelectSeq(result, HasFullChunk)) :
              SelectSeq(result, HasFullChunk)[i].data_words
                  = SelectSeq(ChunksOf(toks), IsFullChunk)[i]
        /\ \A i \in 1..(Len(result) - 1) : result[i].idx < result[i + 1].idx

\* the lexer has returned from a stream with two Type-2 packets whose frame
\* writes go to the same FAR with different payloads
C9_Witness ==
    /\ lpc = "returned"
    /\ NumFDRI >= 2
    /\ \E i, j \in 1..Len(result) :
          /\ i < j
          /\ result[i].far_raw = result[j].far_raw
          /\ result[i].data_words # result[j].data_words
          /\ HasFullChunk(result[i]) /\ HasFullChunk(result[j])

\* C10: in a bitstream loaded with its write history, for every FAR the
\* lexer wrote, get_frame is the lexer's last write to it and
\* get_write_history lists all the lexer's writes to it, in lexer order.
C10_IndicesFollowLexerOrder ==
    (lpc = "loaded" /\ capture_history) =>
        \A far \in LexerFars :
            /\ far \in DOMAIN loaded.frame_by_far
            /\ loaded.frame_by_far[far].frame_index = Last(WritesTo(result, far)).idx
            /\ Len(loaded.write_history[far]) = Len(WritesTo(result, far))
            /\ \A i \in 1..Len(WritesTo(result, far)) :
                  /\ loaded.write_history[far][i].frame_index
                        = WritesTo(result, far)[i].idx
                  /\ loaded.write_history[far][i].frame_data
                        = extract_frame_data(WritesTo(result, far)[i].data_words)

\* a token that is a one-word Type-1 write to the frame address register
\* (configuration register 1; the 14 address bits are hdr[26:13])
IsFarWrite(tok) == tok.kind = "FAR" /\ tok.reg_address % 16384 = 1

\* some Type-2 packet lexed so far has no write to the FAR register before it
FDRIBeforeFarWrite ==
    \E i \in 1..Len(toks) :
        /\ toks[i].kind = "FDRI"
        /\ \A j \in 1..(i - 1) : ~IsFarWrite(toks[j])

\* C11: once a Type-2 packet has been lexed that no FAR write precedes, the
\* lexer has raised, load returns no bitstream and no frame write reaches
\* the caller.
C11_FDRIBeforeFARFails ==
    FDRIBeforeFarWrite =>
        /\ lpc \in {"raised", "failed"}
        /\ loaded = NoBitstream

\* the number of payload words a Type-2 token carries
RECURSIVE NumWords(_)
NumWords(chunks) ==
    IF chunks = <<>> THEN 0 ELSE Len(Head(chunks)) + NumWords(Tail(chunks))

\* some Type-2 packet lexed so far was cut short by the end of the input or
\* has a word count that is not a multiple of 41
MalformedFDRI ==
    \E i \in 1..Len(toks) :
        /\ toks[i].kind = "FDRI"
        /\ \/ NumWords(toks[i].payload) < toks[i].word_count
           \/ toks[i].word_count % WORDS_PER_FRAME # 0

\* C12: once a Type-2 packet has been lexed whose payload is cut short or
\* whose word count is not a multiple of 41, the lexer has raised and load
\* returns no bitstream.
C12_MalformedFDRIFails ==
    MalformedFDRI =>
        /\ lpc \in {"raised", "failed"}
        /\ loaded = NoBitstream

\* C13: a file without the sync marker is never lexed to the end or loaded,
\* and no frame write is produced from it.
C13_MissingSyncFails ==
    find(data, SyncWord) = -1 =>
        /\ lpc \notin {"returned", "loaded"}
        /\ result = <<>>

\* the fields the lexer recorded for a frame write are legal for the device
FarFieldsLegal(f) ==
    /\ f.major < TOTAL_COLUMNS
    /\ f.top_bottom \in {0, 1}
    /\ f.minor < get_frames_per_column(f.major)

\* the loader has reported the lexer's frame write f
ReportedByLoader(f) ==
    f.idx \in adapter_errors(result) \cup validation_warnings(adapt_batch(result))

\* C14: in a loaded bitstream, every 41-word frame write of the lexer whose
\* FAR fields are illegal is in the write log and has been reported.
C14_IllegalFarKeptAndReported ==
    lpc = "loaded" =>
        \A i \in 1..Len(result) :
            (HasFullChunk(result[i]) /\ ~FarFieldsLegal(result[i])) =>
                /\ \E k \in 1..Len(loaded.frames) :
                      loaded.frames[k].frame_index = result[i].idx
                /\ ReportedByLoader(result[i])

(***************************************************************************)
(* Reverse mapper (analysis/assembler/reverse_mapper.py)                   *)
(***************************************************************************)
\* BlockType.get_block_type_from_tile on the tile types of the column table
get_block_type_from_tile(tile_type) ==
    IF tile_type \in {"CLBLL", "CLBLM"} THEN CLB
    ELSE IF tile_type = "INT" THEN CLB
    ELSE IF tile_type \in {"LIOI", "RIOI"} THEN IOB
    ELSE IF tile_type = "BRAM_INT" THEN BRAM_INT
    ELSE IF tile_type = "BRAM" THEN BRAM_CONTENT
    ELSE CLK

\* ReverseMapper._calculate_frames_for_coordinate: the FAR values of the
\* frame references it returns
calculate_frames_for_coordinate(x, y, tile_type) ==
    LET top_bottom == IF y >= 80 THEN 1 ELSE 0
        y_in_half == IF y >= 80 THEN y - 80 ELSE y
        minor == y_in_half \div TILES_PER_ROW
        block_type == get_block_type_from_tile(tile_type)
        Valid(S) == {far \in S : validate(far)}
    IN  IF get_column_type(x) = "UNKNOWN" THEN {}
        ELSE IF ~(0 <= minor /\ minor < get_frames_per_column(x)) THEN {}
        ELSE IF get_column_type(x) = "CLB"
        THEN Valid({encode(CLB, top_bottom, x, m) :
                      m \in {k \in 0..(get_frames_per_column(x) - 1) :
                                k * 20 <= y_in_half /\ y_in_half < (k + 1) * 20}})
        ELSE IF get_column_type(x) = "BRAM"
        THEN Valid((IF minor < 28
                    THEN {encode(BRAM_INT, top_bottom, x, minor)} ELSE {})
                   \cup (IF minor + 28 < get_frames_per_column(x)
                         THEN {encode(BRAM_CONTENT, top_bottom, x, minor + 28)}
                         ELSE {}))
        ELSE Valid({encode(block_type, top_bottom, x, minor)})

\* ReverseMapper.get_frames_for_tile on a mapper whose tile cache has no
\* entry for the tile (no index, or the "hybrid" skeleton): the tile name
\* TYPE_X<x>Y<y> is parsed back into <<type, x, y>> and looked up
get_frames_for_tile(tile) == calculate_frames_for_coordinate(tile[2], tile[3], tile[1])

(***************************************************************************)
(* SpecFar: FrameAddress.encode on legal fields, FrameAddress.decode,      *)
(* FrameMapper.map_frame, then ReverseMapper.get_frames_for_tile on every  *)
(* tile of the coverage                                                    *)
(***************************************************************************)
\* every legal (block_type, top_bottom, major, minor) of the device
LegalFields ==
    {f \in [block_type : 0..7, top_bottom : {0, 1},
            major : 0..(TOTAL_COLUMNS - 1), minor : 0..91] :
        f.minor < get_frames_per_column(f.major)}

InitFar ==
    /\ fa_fields \in LegalFields
    /\ fa_far = <<>>
    /\ fa_decoded = <<>>
    /\ fa_coverage = <<>>
    /\ fa_reverse = <<>>
    /\ fpc = "input"
    /\ DetIdle
    /\ SevIdle
    /\ LoadIdle
    /\ EnhIdle
    /\ BlIdle
    /\ WalkIdle

FarEncode ==
    /\ fpc = "input"
    /\ fa_far' = encode(fa_fields.block_type, fa_fields.top_bottom,
                        fa_fields.major, fa_fields.minor)
    /\ fpc' = "encoded"
    /\ UNCHANGED <<fa_fields, fa_decoded, fa_coverage, fa_reverse,
                   detVars, sevVars, enhVars, blVars, walkVars, loadVars>>

FarDecode ==
    /\ fpc = "encoded"
    /\ fa_decoded' = decode(fa_far)
    /\ fpc' = "decoded"
    /\ UNCHANGED <<fa_fields, fa_far, fa_coverage, fa_reverse,
                   detVars, sevVars, enhVars, blVars, walkVars, loadVars>>

FarMap ==
    /\ fpc = "decoded"
    /\ fa_coverage' = map_frame(fa_far)
    /\ fpc' = "mapped"
    /\ UNCHANGED <<fa_fields, fa_far, fa_decoded, fa_reverse,
                   detVars, sevVars, enhVars, blVars, walkVars, loadVars>>

FarReverse ==
    /\ fpc = "mapped"
    /\ fa_reverse' = [t \in fa_coverage.tiles_affected |-> get_frames_for_tile(t)]
    /\ fpc' = "reversed"
    /\ UNCHANGED <<fa_fields, fa_far, fa_decoded, fa_coverage,
                   detVars, sevVars, enhVars, blVars, walkVars, loadVars>>

NextFar ==
    \/ FarEncode
    \/ FarDecode
    \/ FarMap
    \/ FarReverse

SpecFar == InitFar /\ [][NextFar]_vars

\* C15: decoding the encoding of legal fields returns those fields.
C15_DecodeInvertsEncode ==
    fpc = "decoded" => fa_decoded = fa_fields

\* C16: for a FAR that passes validate and whose coverage is valid, every
\* tile of the coverage has the FAR among its frames in the reverse mapper.
C16_ForwardReverseConsistent ==
    (fpc = "reversed" /\ validate(fa_far) /\ fa_coverage.is_valid) =>
        \A t \in fa_coverage.tiles_affected : fa_far \in fa_reverse[t]

\* a <= b for FAR values read as 32-bit integers
FarLeq(a, b) == a[1] < b[1] \/ (a[1] = b[1] /\ a[2] <= b[2])

\* C17: the anomalies of a returned report are in ascending order of far,
\* whatever order the FAR sets were iterated in.
C17_AnomaliesInFarOrder ==
    Returned =>
        \A i, j \in 1..Len(report.anomalies) :
            i < j => FarLeq(report.anomalies[i].far_value, report.anomalies[j].far_value)

\* C18: a transient anomaly whose rule-table severity is LOW or MEDIUM leaves
\* _assess_severity with severity HIGH and confidence max(table, 0.80); one
\* whose rule-table severity is HIGH or CRITICAL keeps the table's severity
\* and confidence; in both cases its attack vectors contain
\* transient_payload.
C18_TransientBump ==
    (spc = "assessed" /\ anomaly.transient) =>
        LET rule == FirstMatch(ClaimedRules(anomaly))
        IN  /\ rule[2] \in {"LOW", "MEDIUM"} =>
                   /\ anomaly.severity = "HIGH"
                   /\ anomaly.confidence_score = Max(rule[3], 80)
            /\ rule[2] \in {"HIGH", "CRITICAL"} =>
                   /\ anomaly.severity = rule[2]
                   /\ anomaly.confidence_score = rule[3]
            /\ "transient_payload" \in Range(anomaly.attack_vectors)

\* an assessed transient FRAME_REMOVED anomaly outside every rule but the
\* LOW one: bumped to HIGH with the confidence raised from 0.40 to 0.80
C18_Witness ==
    /\ spc = "assessed"
    /\ anomaly.transient
    /\ anomaly.anomaly_type = "FRAME_REMOVED"
    /\ FirstMatch(ClaimedRules(anomaly))[2] = "LOW"
    /\ FirstMatch(ClaimedRules(anomaly))[3] = 40
    /\ anomaly.severity = "HIGH"
    /\ anomaly.confidence_score = 80
    /\ anomaly.attack_vectors = <<"transient_payload">>

(***************************************************************************)
(* Bit semantics (detector/semantic/bit_semantics.py)                      *)
(***************************************************************************)
Descriptor(function, routing, sensitive) ==
    <<[function |-> function, is_routing_critical |-> routing,
       is_security_sensitive |-> sensitive]>>

\* BitLayoutDatabase._build_clb_layout: <<>> where the layout has no entry
clb_layout(bit) ==
    IF bit < 704 THEN Descriptor("pip", TRUE, TRUE)
    ELSE IF bit < 832 THEN Descriptor("pip", TRUE, FALSE)
    ELSE IF bit < 1088 THEN Descriptor("lut_init", FALSE, TRUE)
    ELSE IF bit < 1120
         THEN (IF (bit - 1088) % 8 = 0 THEN Descriptor("ff_init", FALSE, FALSE)
               ELSE IF (bit - 1088) % 8 \in {1, 2}
                    THEN Descriptor("ff_ctrl", FALSE, FALSE)
               ELSE <<>>)
    ELSE IF bit < 1200 THEN Descriptor("mux_select", FALSE, FALSE)
    ELSE IF bit < 1250 THEN Descriptor("carry_chain", FALSE, FALSE)
    ELSE Descriptor("ff_ctrl", FALSE, FALSE)

\* BitLayoutDatabase._build_iob_layout
iob_layout(bit) ==
    IF bit < 800 THEN Descriptor("pip", TRUE, TRUE)
    ELSE IF bit < 850 THEN Descriptor("io_standard", FALSE, FALSE)
    ELSE IF bit < 900 THEN Descriptor("drive_strength", FALSE, FALSE)
    ELSE IF bit >= 1200 THEN Descriptor("pull_resistor", FALSE, FALSE)
    ELSE <<>>

\* BitLayoutDatabase.get_bit_descriptor: <<>> is None
get_bit_descriptor(far, bit_offset) ==
    LET block_type == decode(far).block_type
    IN  IF ~(0 <= bit_offset /\ bit_offset < BITS_PER_FRAME) THEN <<>>
        ELSE IF block_type = CLB THEN clb_layout(bit_offset)
        ELSE IF block_type = IOB THEN iob_layout(bit_offset)
        ELSE IF block_type = BRAM_CONTENT THEN Descriptor("bram_init", FALSE, TRUE)
        ELSE IF block_type = CLK THEN Descriptor("clock_mux", TRUE, TRUE)
        ELSE <<>>

\* FrameBitExtractor.analyze_bit_change: the 'severity' entry; the dictionary
\* returned for a bit without a descriptor has no 'is_routing', 'function'
\* value 'unknown' and severity 'low'
bit_change_severity(far, bit_offset) ==
    LET d == get_bit_descriptor(far, bit_offset)
    IN  IF d = <<>> THEN "low"
        ELSE IF d[1].function = "pip"
             THEN (IF d[1].is_security_sensitive THEN "critical" ELSE "high")
        ELSE IF d[1].function = "lut_init" THEN "high"
        ELSE IF d[1].function = "clock_mux" THEN "critical"
        ELSE "medium"

\* SemanticBitDiff.analyze_frame_diff: c['is_routing'] raises KeyError for a
\* changed bit that has no descriptor
analyze_frame_diff(far, golden_data, suspect_data) ==
    LET bit_changes == compare_frames(golden_data, suspect_data)
        sev == {bit_change_severity(far, b) : b \in bit_changes}
    IN  IF bit_changes = {}
        THEN [raised |-> FALSE, has_changes |-> FALSE, max_severity |-> "low"]
        ELSE IF \E b \in bit_changes : get_bit_descriptor(far, b) = <<>>
        THEN [raised |-> TRUE, has_changes |-> TRUE, max_severity |-> "low"]
        ELSE [raised |-> FALSE, has_changes |-> TRUE,
              max_severity |-> IF "critical" \in sev THEN "critical"
                               ELSE IF "high" \in sev THEN "high"
                               ELSE IF "medium" \in sev THEN "medium"
                               ELSE "low"]

(***************************************************************************)
(* EnhancedDifferentialDetector                                            *)
(* (detector/differential/enhanced_differential_detector.py)               *)
(***************************************************************************)
\* the loop body of _enhance_anomalies_with_semantics
enhance_anomaly(a) ==
    IF a.golden_data = <<>> \/ a.suspect_data = <<>>
    THEN [raised |-> FALSE, anomaly |-> a]
    ELSE LET semantic_analysis ==
                 analyze_frame_diff(a.far_value, a.golden_data[1], a.suspect_data[1])
         IN  IF semantic_analysis.raised THEN [raised |-> TRUE, anomaly |-> a]
             ELSE IF ~semantic_analysis.has_changes THEN [raised |-> FALSE, anomaly |-> a]
             ELSE IF semantic_analysis.max_severity = "critical"
             THEN [raised |-> FALSE,
                   anomaly |-> [a EXCEPT !.severity = "CRITICAL",
                                         !.confidence_score = Min(100, @ + 20)]]
             ELSE [raised |-> FALSE, anomaly |-> a]

\* EnhancedDifferentialDetector._enhance_anomalies_with_semantics: the
\* anomalies are changed in place, up to the one whose analysis raises
RECURSIVE enhance_anomalies_with_semantics(_)
enhance_anomalies_with_semantics(anomalies) ==
    IF anomalies = <<>> THEN [raised |-> FALSE, anomalies |-> <<>>]
    ELSE LET e == enhance_anomaly(Head(anomalies))
         IN  IF e.raised THEN [raised |-> TRUE, anomalies |-> anomalies]
             ELSE LET rest == enhance_anomalies_with_semantics(Tail(anomalies))
                  IN  [raised |-> rest.raised,
                       anomalies |-> <<e.anomaly>> \o rest.anomalies]

\* EnhancedDifferentialDetector._get_golden_frames: <<>> is None
get_golden_frames(g) == <<>>

\* EnhancedDifferentialDetector._analyze_routing_differences: it returns its
\* empty list as soon as _get_golden_frames has returned None, which is
\* always; the reconstruction behind that return is never reached
analyze_routing_differences(g, bs) == <<>>

\* EnhancedDifferentialDetector._analyze_logic_differences, likewise
analyze_logic_differences(g, bs) == <<>>

(***************************************************************************)
(* SpecEnhanced: detect_enhanced(golden, suspect, analyze_routing,         *)
(* analyze_logic): the steps of detect, then the semantic passes and a     *)
(* second finalize on the same report                                      *)
(***************************************************************************)
\* lexer addresses <<block, top_bottom, column, minor>>:
\*   CLB column 8 decodes as block type CLB (every low bit a sensitive PIP),
\*   CLB column 2 decodes as BRAM_CONTENT (BRAM_INIT bits),
\*   CLB column 4 decodes as DSP (no bit layout)
EnhAddrs == {<<0, 0, 8, 1>>, <<0, 0, 2, 1>>, <<0, 0, 4, 2>>}

EnhPayloads == {0, 9, 60}

EnhLogs ==
    UNION {{[i \in 1..n |-> AdaptedFrame(w[i][1], w[i][2], i - 1)] :
                w \in [1..n -> EnhAddrs \X EnhPayloads]} : n \in 1..MaxWrites}

InitEnhanced ==
    /\ bitA \in EnhLogs
    /\ bitB \in EnhLogs
    /\ usedOpt \in {"build_from_loaded", "build_from_bitstream"}
    /\ run = 1
    /\ first = NoOutcome
    /\ golden = EmptyBaseline
    /\ suspect = NoBitstream
    /\ dpc = "build"
    /\ report = EmptyReport
    /\ eopt \in BOOLEAN \X BOOLEAN
    /\ base_anomalies = <<>>
    /\ epc = "detect"
    /\ SevIdle
    /\ LoadIdle
    /\ FarIdle
    /\ BlIdle
    /\ WalkIdle

\* detect_enhanced, phase 2, every analysis returning
EnhanceSemantics ==
    /\ epc = "detect"
    /\ dpc = "returned"
    /\ ~enhance_anomalies_with_semantics(report.anomalies).raised
    /\ base_anomalies' = report.anomalies
    /\ report' = [report EXCEPT
                     !.anomalies = enhance_anomalies_with_semantics(@).anomalies]
    /\ epc' = "routing"
    /\ UNCHANGED <<eopt, bitA, bitB, usedOpt, run, first, golden, suspect, dpc,
                   sevVars, loadVars, farVars, blVars, walkVars>>

\* detect_enhanced, phase 2: the KeyError of analyze_frame_diff leaves
\* detect_enhanced
EnhanceSemanticsKeyError ==
    /\ epc = "detect"
    /\ dpc = "returned"
    /\ enhance_anomalies_with_semantics(report.anomalies).raised
    /\ base_anomalies' = report.anomalies
    /\ report' = [report EXCEPT
                     !.anomalies = enhance_anomalies_with_semantics(@).anomalies]
    /\ epc' = "raised"
    /\ UNCHANGED <<eopt, bitA, bitB, usedOpt, run, first, golden, suspect, dpc,
                   sevVars, loadVars, farVars, blVars, walkVars>>

\* detect_enhanced, phase 3
AnalyzeRouting ==
    /\ epc = "routing"
    /\ report' = IF eopt[1]
                 THEN add_anomalies(report, analyze_routing_differences(golden, suspect))
                 ELSE report
    /\ epc' = "logic"
    /\ UNCHANGED <<eopt, base_anomalies, bitA, bitB, usedOpt, run, first, golden,
                   suspect, dpc, sevVars, loadVars, farVars, blVars, walkVars>>

\* detect_enhanced, phase 4
AnalyzeLogic ==
    /\ epc = "logic"
    /\ report' = IF eopt[2]
                 THEN add_anomalies(report, analyze_logic_differences(golden, suspect))
                 ELSE report
    /\ epc' = "finalize"
    /\ UNCHANGED <<eopt, base_anomalies, bitA, bitB, usedOpt, run, first, golden,
                   suspect, dpc, sevVars, loadVars, farVars, blVars, walkVars>>

\* detect_enhanced: report.finalize(), return
EnhancedFinalize ==
    /\ epc = "finalize"
    /\ report' = finalize(report)
    /\ epc' = "returned"
    /\ UNCHANGED <<eopt, base_anomalies, bitA, bitB, usedOpt, run, first, golden,
                   suspect, dpc, sevVars, loadVars, farVars, blVars, walkVars>>

NextEnhanced ==
    \/ Build
    \/ DetectStructural
    \/ DetectStructuralNameError
    \/ DetectData
    \/ Classify
    \/ AssessSeverity
    \/ Finalize
    \/ EnhanceSemantics
    \/ EnhanceSemanticsKeyError
    \/ AnalyzeRouting
    \/ AnalyzeLogic
    \/ EnhancedFinalize

SpecEnhanced == InitEnhanced /\ [][NextEnhanced]_vars

(***************************************************************************)
(* Properties of the enhanced detector                                     *)
(***************************************************************************)
\* the severities of a report's anomalies, in order
Severities(r) == [i \in 1..Len(r.anomalies) |-> r.anomalies[i].severity]

\* the fields a frozen report may not change
Frozen(r) ==
    <<Severities(r), r.critical_count, r.high_count, r.medium_count, r.low_count,
      r.type_counts, r.trojan_detected, r.verdict>>

\* C19: once finalize has run on the report (detect has returned it), no
\* later step adds an anomaly to it, changes the severity of one of its
\* anomalies, or changes its counts or its verdict.
C19_FrozenAfterFinalize ==
    [][dpc = "returned" => Frozen(report') = Frozen(report)]_vars

GoldenPayloadsUnavailable == get_golden_frames(golden) = <<>>

NumInfo(r) ==
    Cardinality({i \in 1..Len(r.anomalies) : r.anomalies[i].severity = "INFO"})

\* C20: with the golden payloads unavailable, detect_enhanced called on a
\* report-producing detect returns a report that holds every anomaly of
\* the base pass, in order, followed by exactly one INFO anomaly.
C20_DegradesGracefully ==
    (dpc = "returned" /\ epc \in {"returned", "raised"}
        /\ GoldenPayloadsUnavailable) =>
        /\ epc = "returned"
        /\ NumInfo(report) = 1
        /\ Len(report.anomalies) = Len(base_anomalies) + 1
        /\ \A i \in 1..Len(base_anomalies) :
              report.anomalies[i].anomaly_id = base_anomalies[i].anomaly_id

(***************************************************************************)
(* GoldenBaseline.save / GoldenBaseline.load                               *)
(* (detector/baseline/golden_baseline.py)                                  *)
(***************************************************************************)
\* list(a_set): the elements in one iteration order
RECURSIVE ListOf(_)
ListOf(S) ==
    IF S = {} THEN <<>>
    ELSE LET x == CHOOSE y \in S : TRUE IN <<x>> \o ListOf(S \ {x})

\* GoldenBaseline._to_json_dict: the entries of the dictionary that hold
\* fields of the baseline; frame data and write history are not among them
to_json_dict(g) ==
    [configured_fars |-> ListOf(g.configured_fars),
     used_tiles |-> ListOf(g.used_tiles),
     frame_count |-> g.size]

\* GoldenBaseline._from_json_dict: a new baseline with the metadata of the
\* dictionary; _frames and _write_history stay as __init__ left them
from_json_dict(d) ==
    [EmptyBaseline EXCEPT
        !.configured_fars = Range(d.configured_fars),
        !.used_tiles = Range(d.used_tiles)]

\* GoldenBaseline.save: the content of the file, <<>> when nothing usable
\* was written (unknown format)
save(g, format) ==
    IF format = "pickle" THEN <<[format |-> "pickle", object |-> g]>>
    ELSE IF format = "json" THEN <<[format |-> "json", dict |-> to_json_dict(g)]>>
    ELSE <<>>

\* GoldenBaseline.load of a file save wrote with the same format
load_baseline(file) ==
    IF file[1].format = "pickle" THEN file[1].object
    ELSE from_json_dict(file[1].dict)

(***************************************************************************)
(* SpecBaseline: build a baseline from a loaded bitstream, save it in one  *)
(* of the two formats, load it back                                        *)
(***************************************************************************)
BaselineFormats == {"pickle", "json"}

InitBaseline ==
    /\ bitA \in DetLogs
    /\ bitB = <<>>
    /\ usedOpt \in {"build_from_loaded", "build_from_bitstream"}
    /\ run = 0
    /\ first = NoOutcome
    /\ golden = EmptyBaseline
    /\ suspect = NoBitstream
    /\ dpc = "idle"
    /\ report = EmptyReport
    /\ bfile = <<>>
    /\ reloaded = EmptyBaseline
    /\ bpc = "build"
    /\ SevIdle
    /\ LoadIdle
    /\ FarIdle
    /\ EnhIdle
    /\ WalkIdle

\* GoldenBaselineBuilder.build_from_loaded / build_from_bitstream
BaselineBuild ==
    /\ bpc = "build"
    /\ golden' = IF usedOpt = "build_from_bitstream"
                 THEN build_from_bitstream(build_indices(bitA))
                 ELSE build_from_loaded(build_indices(bitA))
    /\ bpc' = "built"
    /\ UNCHANGED <<bfile, reloaded, bitA, bitB, usedOpt, run, first, suspect, dpc,
                   report, sevVars, loadVars, farVars, enhVars, walkVars>>

\* golden.save(filepath, format)
BaselineSave ==
    /\ bpc = "built"
    /\ \E format \in BaselineFormats : bfile' = save(golden, format)
    /\ bpc' = "saved"
    /\ UNCHANGED <<reloaded, detVars, sevVars, loadVars, farVars, enhVars, walkVars>>

\* GoldenBaseline.load(filepath, format)
BaselineLoad ==
    /\ bpc = "saved"
    /\ reloaded' = load_baseline(bfile)
    /\ bpc' = "loaded"
    /\ UNCHANGED <<bfile, detVars, sevVars, loadVars, farVars, enhVars, walkVars>>

NextBaseline ==
    \/ BaselineBuild
    \/ BaselineSave
    \/ BaselineLoad

SpecBaseline == InitBaseline /\ [][NextBaseline]_vars

\* C21: a baseline that was saved and loaded back, in either format, equals
\* the original in the fields the detector reads: the configured FARs, the
\* frame of every FAR, the write histories and the used tiles.
C21_SaveLoadRoundTrip ==
    bpc = "loaded" =>
        /\ reloaded.configured_fars = golden.configured_fars
        /\ reloaded.frames = golden.frames
        /\ reloaded.write_history = golden.write_history
        /\ reloaded.used_tiles = golden.used_tiles

(***************************************************************************)
(* Further properties of the lexer                                         *)
(***************************************************************************)
\* the header at the lexer's position is a Type-1 WRITE of one word to the
\* FAR register (register address 1)
AtFarRegisterWrite ==
    /\ Lexing
    /\ payload[pos + 1][1] \div 8192 = 1
    /\ opcode((payload[pos + 1][1] \div 2048) % 4) = "WRITE"
    /\ payload[pos + 1][2] % 8192 = 1
    /\ do_lexing(pos).reg_address % 16384 = 1

\* C22: the lexer's current FAR (last_far) changes only in a step that lexes
\* a Type-1 WRITE of one word to the FAR register; a one-word Type-1 write
\* to another register leaves it unchanged.
C22_FarChangesOnlyOnFarWrite ==
    [][last_far' # last_far => AtFarRegisterWrite]_vars

(***************************************************************************)
(* SpecWalk: one call of FrameLexer.generate_frames(start_fields,          *)
(* payload_frames, start_idx = 0), one iteration of its loop a step        *)
(***************************************************************************)
MaxChunks == 3

\* the minors a FAR write can start the walk at: the first, the last two of
\* each column height, and one beyond every column
WalkMinors == {0, 26, 27, 28, 29, 34, 35, 52, 53, 60}

\* what interpret_far can return: <<block, top_bottom, column, major, minor>>
WalkStarts ==
    {<<b, t, c, (t * 32) + c, m>> :
        b \in {0, 1, 2, 3, 4}, t \in {0, 1}, c \in {0, 2, 3, 5, 9, 11, 13, 14, 20},
        m \in WalkMinors}

InitWalk ==
    /\ \E start_fields \in WalkStarts : \E n \in 0..MaxChunks :
          gf = [start_fields |-> start_fields,
                payload_frames |-> [k \in 1..n |-> DataWords(k, WORDS_PER_FRAME)]]
    /\ wpc = "call"
    /\ data = <<>> /\ payload = <<>> /\ pos = 0 /\ last_far = <<>> /\ toks = <<>>
    /\ result = <<>> /\ capture_history = TRUE /\ loaded = NoBitstream
    /\ lpc = "idle"
    /\ DetIdle
    /\ SevIdle
    /\ FarIdle
    /\ EnhIdle
    /\ BlIdle

\* generate_frames up to its loop, the starting block code being a key of
\* Blocks
WalkEnter ==
    /\ wpc = "call"
    /\ Blocks(gf.start_fields[1]) # ""
    /\ LET major_list == Blocks_Majors(Blocks(gf.start_fields[1]))
           found == IndexOf(major_list, gf.start_fields[3]) # 0
       IN  gf' = [start_fields |-> gf.start_fields,
                  payload_frames |-> gf.payload_frames,
                  block |-> gf.start_fields[1],
                  top_bottom |-> gf.start_fields[2],
                  column |-> IF found THEN gf.start_fields[3] ELSE major_list[1],
                  minor |-> gf.start_fields[5],
                  major_list |-> major_list,
                  maj_idx |-> IF found
                              THEN IndexOf(major_list, gf.start_fields[3]) - 1 ELSE 0,
                  total_needed |-> Len(gf.payload_frames),
                  created |-> 0,
                  max_iter |-> (Len(gf.payload_frames) * 4) + 1000]
    /\ wpc' = "loop"
    /\ UNCHANGED <<detVars, sevVars, loadVars, farVars, enhVars, blVars>>

\* generate_frames: the ValueError for a starting block code outside Blocks
WalkUnknownBlock ==
    /\ wpc = "call"
    /\ Blocks(gf.start_fields[1]) = ""
    /\ wpc' = "raised"
    /\ UNCHANGED <<gf, detVars, sevVars, loadVars, farVars, enhVars, blVars>>

walker_step_same_block(g) ==
    IF g.minor + 1 < max_minor(g.column)
    THEN [g EXCEPT !.minor = g.minor + 1]
    ELSE IF g.maj_idx + 1 < Len(g.major_list)
    THEN [g EXCEPT !.minor = 0, !.maj_idx = @ + 1,
                   !.column = g.major_list[g.maj_idx + 2]]
    ELSE [g EXCEPT !.minor = 0, !.maj_idx = 0, !.column = g.major_list[1]]

walker_step_budget_per_column(g) ==
    IF g.minor + 1 < max_minor(g.column)
    THEN [g EXCEPT !.minor = g.minor + 1]
    ELSE [g EXCEPT !.minor = 0, !.max_iter = 0]

\* the address update at the end of one loop iteration, on the locals g;
\* max_minor(g.column) is not -1
walker_step(g) ==
    LET next_minor == g.minor + 1
        max_m == max_minor(g.column)
        next_block == next_block_code(g.block)
    IN  IF next_minor < max_m
        THEN [g EXCEPT !.minor = next_minor]
        ELSE IF g.maj_idx + 1 < Len(g.major_list)
        THEN [g EXCEPT !.minor = 0, !.maj_idx = @ + 1,
                       !.column = g.major_list[g.maj_idx + 2]]
        ELSE IF next_block = -1
        THEN [g EXCEPT !.top_bottom = 1 - @, !.block = 0,
                       !.major_list = Blocks_Majors(Blocks(0)),
                       !.maj_idx = 0,
                       !.column = Blocks_Majors(Blocks(0))[1],
                       !.minor = 0]
        ELSE [g EXCEPT !.block = next_block,
                       !.major_list = Blocks_Majors(Blocks(next_block)),
                       !.maj_idx = 0,
                       !.column = Blocks_Majors(Blocks(next_block))[1],
                       !.minor = 0]

\* one iteration of the while loop: append the frame of the current
\* address, count it, then move the address (ValueError for a column
\* MajorMinors does not know)
WalkIter ==
    /\ wpc = "loop"
    /\ gf.created < gf.total_needed /\ gf.max_iter > 0
    /\ result' = Append(result,
                        FrameObj(<<gf.block, gf.top_bottom, gf.column, gf.minor>>,
                                 gf.payload_frames[gf.created + 1], gf.created))
    /\ LET counted == [gf EXCEPT !.created = @ + 1, !.max_iter = @ - 1]
       IN  IF max_minor(gf.column) = -1
           THEN gf' = counted /\ wpc' = "raised"
           ELSE gf' = walker_step(counted) /\ wpc' = "loop"
    /\ UNCHANGED <<data, payload, pos, last_far, toks, capture_history, loaded, lpc,
                   detVars, sevVars, farVars, enhVars, blVars>>

\* the loop has ended: RuntimeError unless every chunk has its frame
WalkExit ==
    /\ wpc = "loop"
    /\ ~(gf.created < gf.total_needed /\ gf.max_iter > 0)
    /\ wpc' = IF gf.created # gf.total_needed THEN "raised" ELSE "returned"
    /\ UNCHANGED <<gf, detVars, sevVars, loadVars, farVars, enhVars, blVars>>

NextWalk ==
    \/ WalkEnter
    \/ WalkUnknownBlock
    \/ WalkIter
    \/ WalkExit

SpecWalk == InitWalk /\ [][NextWalk]_vars

(***************************************************************************)
(* Properties of the column walker                                         *)
(***************************************************************************)
\* the address a lexer frame records
AddrOf(f) == <<f.block_type, f.top_bottom, f.column, f.minor>>

PopulatedBlocks == {c \in 0..7 : Blocks(c) # ""}

\* the address that follows <<block, top_bottom, column, minor>> as claimed
ClaimedNext(a) ==
    LET cols == Blocks_Majors(Blocks(a[1]))
        at == CHOOSE i \in 1..Len(cols) : cols[i] = a[3]
        higher == {c \in PopulatedBlocks : c > a[1]}
        lowest(S) == CHOOSE c \in S : \A d \in S : c <= d
    IN  IF a[4] + 1 < max_minor(a[3]) THEN <<a[1], a[2], a[3], a[4] + 1>>
        ELSE IF at < Len(cols) THEN <<a[1], a[2], cols[at + 1], 0>>
        ELSE IF higher # {}
        THEN <<lowest(higher), a[2], Blocks_Majors(Blocks(lowest(higher)))[1], 0>>
        ELSE <<lowest(PopulatedBlocks), 1 - a[2],
               Blocks_Majors(Blocks(lowest(PopulatedBlocks)))[1], 0>>

C30_WalkerEmitsAllFrames ==
    Blocks(gf.start_fields[1]) # "" =>
        /\ wpc # "raised"
        /\ (wpc = "loop" /\ gf.created < gf.total_needed) => gf.max_iter > 0
        /\ wpc = "returned" =>
              /\ Len(result) = Len(gf.payload_frames)
              /\ gf.created = Len(gf.payload_frames)

\* a returned walk of three chunks that went through a block boundary and
\* used three of its 1012 iterations
C30_Witness ==
    /\ wpc = "returned"
    /\ Len(gf.payload_frames) = 3
    /\ Len(result) = 3
    /\ gf.max_iter = 1009
    /\ result[1].block_type = 0 /\ result[2].block_type = 1

\* C29: when the lexer takes a Type-2 packet right after another Type-2
\* packet (no FAR write between them), the first frame of the second
\* packet is at the claimed successor of the address of the last frame of
\* the first packet, not at the written FAR again.
C29_SecondPacketContinuesWalk ==
    [][(/\ Lexing
        /\ do_lexing(pos).kind = "FDRI"
        /\ toks # <<>> /\ Last(toks).kind = "FDRI" /\ Last(toks).payload # <<>>
        /\ result # <<>>
        /\ Len(result') > Len(result))
       => AddrOf(result'[Len(result) + 1]) = ClaimedNext(AddrOf(Last(result)))]_vars

\* C24: for every frame the lexer has emitted, FrameAddress.decode of its FAR
\* gives the block type, the top_bottom, the column and the minor the lexer
\* recorded for the frame.
C24_DecodeAgreesWithLexer ==
    \A i \in 1..Len(result) :
        LET d == decode(FromHex8(result[i].far_raw))
        IN  /\ d.block_type = result[i].block_type
            /\ d.top_bottom = result[i].top_bottom
            /\ d.major = result[i].column
            /\ d.minor = result[i].minor

\* C25: when detect returns, for every common FAR whose final payloads are
\* equal, every suspect write at a history position beyond the length of the
\* golden history has a transient anomaly that carries that write's payload.
C25_ExtraWritesReported ==
    Returned =>
        \A far \in CommonFars :
            FinalDiff(far) = 0 =>
                \A idx \in (Len(golden.write_history[far]) + 1)..Len(suspect.write_history[far]) :
                    \E a \in Anoms :
                        /\ a.far_value = far
                        /\ a.transient
                        /\ a.suspect_data = <<suspect.write_history[far][idx].frame_data>>


\* the block type decoded from the FAR is not the one its column and minor
\* call for (the warning map_frame appends at line 239)
BlockTypeMismatch(far) ==
    "block_type_unexpected" \in map_frame(far).validation_warnings

\* C26: when detect returns, every suspect frame whose FAR block type
\* disagrees with the block type expected for its column and minor has a
\* FRAME_ADDED anomaly in the report.
C26_BlockMismatchReported ==
    Returned =>
        \A far \in FarsOf(suspect.frames) :
            BlockTypeMismatch(far) =>
                \E a \in Anoms : /\ a.far_value = far
                                 /\ a.anomaly_type = "FRAME_ADDED"


\* C27: the coverage map_frame builds for a CLB-block frame is that of the
\* categories {routing, control} when its minor is below the routing frame
\* count of its column and of {logic, control} otherwise, so exactly one of
\* is_routing_frame and is_logic_frame is set.
C27_ClbRoutingOrLogic ==
    (fpc \in {"mapped", "reversed"} /\ fa_coverage.block_type_id = CLB) =>
        LET routing == fa_coverage.minor < get_routing_frames_count(fa_coverage.column)
            categories == classify_resources(fa_coverage.block_type_id,
                                             fa_coverage.column, fa_coverage.minor)
        IN  /\ categories = (IF routing THEN {"routing", "control"}
                                        ELSE {"logic", "control"})
            /\ fa_coverage.is_routing_frame = routing
            /\ fa_coverage.is_logic_frame = ~routing


\* the writes of the golden bitstream whose payload has more than 1% of the
\* bits of a frame set
DenseWrites ==
    {i \in 1..Len(bitA) : 100 * Cardinality(bitA[i].frame_data) > BITS_PER_FRAME}

\* C28: a baseline built without a used-tile set has as used tiles the union
\* of the tiles map_frame gives for exactly the frames of the bitstream with
\* more than 1% of their 1312 bits set.
C28_UsedTilesAutoInferred ==
    bpc \in {"built", "saved", "loaded"} =>
        golden.used_tiles =
            UNION {map_frame(bitA[i].far_value).tiles_affected : i \in DenseWrites}

====
